---- MODULE Spec2Model ----
(***************************************************************************)
(* A model of TFBVerifier: the Messages accumulator (verification.rs), the *)
(* counted-request harness and the database reconciliation                 *)
(* (database/mod.rs, database/mysql.rs, test_type/query/updates.rs), the   *)
(* executor dispatch (test_type/mod.rs, main.rs) and the plaintext and     *)
(* fortune verifiers (test_type/plaintext.rs, test_type/fortune.rs).       *)
(***************************************************************************)
EXTENDS Integers, Sequences, FiniteSets, TLC

(***************************************************************************)
(* Bounds of the model.                                                    *)
(***************************************************************************)
MaxConcurrency == 3
MaxRepetitions == 2
MaxCpus == 2
ReconMaxConcurrency == 2
ReconMaxRepetitions == 1
ReconMaxCpus == 2
MaxInc == 1
MaxExpected == 2

VARIABLES
    messages,               \* the Messages accumulator of the run
    stdout,                 \* the lines printed so far
    raised,                 \* history: the records in the order raised
    concurrency,            \* argument of the harness
    repetitions,            \* argument of the harness
    num_cpus,               \* num_cpus::get()
    hpc,                    \* position of the thread inside issue_multi_query_requests
    rep,                    \* repetitions of the outer loop completed
    requests_to_send,       \* AtomicI64 of the current repetition
    transaction_successes,  \* AtomicU32
    transaction_failures,   \* AtomicU32
    wpc,                    \* position of each pool worker
    issued,                 \* history: the requests issued, per repetition
    rpc,                    \* position inside verify_*_count
    check,                  \* the reconciliation running: kind, vendor, expected
    db,                     \* the backend's raw counters
    incs,                   \* what one request may add to a raw counter
    before_count,           \* the counter read before the harness
    db_before,              \* history: the raw counters at that read
    after_count,            \* the counter read after the harness
    rendered,               \* what each call of output_verification_results printed
    mpc,                    \* position of main
    env,                    \* TEST_TYPE and DATABASE as main reads them
    test_type,              \* the TestType main resolved
    executor,               \* what get_executor gave back
    outcome,                \* how the process ended, if it has
    vpc,                    \* position of Executor::verify
    vexec,                  \* the executor whose verify runs
    overflow_checks,        \* whether the build checks integer overflow
    concurrency_levels,     \* the executor's concurrency_levels
    response_body,          \* the local response_body of Fortune::verify
    verified,               \* the local verified of Fortune::verify
    inserted,               \* calls of insert_one_thousand_fortunes
    call,                   \* a function called on its own: its name and arguments
    cpc,                    \* position of that call
    ret                     \* what that call returned

harnessVars == <<concurrency, repetitions, num_cpus, hpc, rep, requests_to_send,
                 transaction_successes, transaction_failures, wpc, issued>>
reconVars == <<rpc, check, db, incs, before_count, db_before, after_count>>
msgVars == <<messages, stdout, raised>>
mainVars == <<mpc, env, test_type, executor, outcome>>
verifyVars == <<vpc, vexec, overflow_checks, concurrency_levels, response_body,
                verified, inserted>>
callVars == <<call, cpc, ret>>
restVars == <<rendered, mainVars, verifyVars, callVars>>
nonMsgVars == <<harnessVars, reconVars, mainVars, verifyVars, callVars>>
vars == <<msgVars, harnessVars, reconVars, restVars>>

(***************************************************************************)
(* Messages (verification.rs).  A message is the format string with its    *)
(* numeric and string arguments.  A body is the sequence of its            *)
(* characters.                                                             *)
(***************************************************************************)
Msg(text, nums, strs) == [text |-> text, nums |-> nums, strs |-> strs]

Messages_new(url) ==
    [warnings |-> <<>>, errors |-> <<>>, url |-> url, body |-> <<>>, headers |-> <<>>]

Messages_default == Messages_new("")

Messages_body(m, body) == [m EXCEPT !.body = body]

\* the record captured by error / warning: the context at the time of the call
Record(m, message) ==
    [body |-> m.body, url |-> m.url, headers |-> m.headers, message |-> message]

\* mutant: the error lands in the warnings list
Messages_error_IntoWarnings(m, message) ==
    [m EXCEPT !.warnings = Append(@, Record(m, message))]

Messages_error(m, message) ==
    [m EXCEPT !.errors = Append(@, Record(m, message))]

\* mutant: the warning is inserted at the front of the list
Messages_warning_Prepend(m, message) ==
    [m EXCEPT !.warnings = <<Record(m, message)>> \o @]

Messages_warning(m, message) ==
    [m EXCEPT !.warnings = Append(@, Record(m, message))]

\* the line send_error / send_warning prints
send_error(message, short_message) ==
    [kind |-> "error", message |-> message, short_message |-> short_message]

send_warning(message, short_message) ==
    [kind |-> "warning", message |-> message, short_message |-> short_message]

\* messages.error(..) as a step on the state: one line, one record
RaiseError(message, short_message) ==
    /\ stdout' = Append(stdout, send_error(message, short_message))
    /\ messages' = Messages_error(messages, message)
    /\ raised' = Append(raised, [kind |-> "error", message |-> message])

RaiseWarning(message, short_message) ==
    /\ stdout' = Append(stdout, send_warning(message, short_message))
    /\ messages' = Messages_warning(messages, message)
    /\ raised' = Append(raised, [kind |-> "warning", message |-> message])

\* a sequence of findings <<kind, message, short_message>> raised in order
RECURSIVE ApplyFindings(_, _)
ApplyFindings(m, fs) ==
    IF fs = <<>> THEN m
    ELSE ApplyFindings(IF Head(fs)[1] = "error"
                       THEN Messages_error(m, Head(fs)[2])
                       ELSE Messages_warning(m, Head(fs)[2]), Tail(fs))

FindingLines(fs) ==
    [i \in 1..Len(fs) |->
        IF fs[i][1] = "error" THEN send_error(fs[i][2], fs[i][3])
        ELSE send_warning(fs[i][2], fs[i][3])]

FindingRaised(fs) ==
    [i \in 1..Len(fs) |-> [kind |-> fs[i][1], message |-> fs[i][2]]]

RaiseAll(fs) ==
    /\ stdout' = stdout \o FindingLines(fs)
    /\ messages' = ApplyFindings(messages, fs)
    /\ raised' = raised \o FindingRaised(fs)

\* get_headers_as_string: "{'k':'v', 'k2':'v2'}" over the map's entries in
\* the order the HashMap iterates them; a string of the model is the sequence
\* of its pieces, so "" is <<>> and the string of the empty map is "{}"
RECURSIVE EntryPieces(_)
EntryPieces(order) ==
    IF order = <<>> THEN <<>>
    ELSE <<order[1][1], order[1][2]>> \o EntryPieces(Tail(order))

get_headers_as_string(order) == <<"{">> \o EntryPieces(order) \o <<"}">>

\* messages.headers(&map), the map iterated in `order`
Messages_headers(m, order) == [m EXCEPT !.headers = get_headers_as_string(order)]

\* every order in which a HashMap may iterate the entries of `map`
RECURSIVE Orders(_)
Orders(map) ==
    IF DOMAIN map = {} THEN {<<>>}
    ELSE UNION {{<<  <<k, map[k]>>  >> \o rest :
                    rest \in Orders([j \in DOMAIN map \ {k} |-> map[j]])} :
                k \in DOMAIN map}

\* the lines output_verification_results prints for one record
RecordLines(r) ==
    <<[line |-> "message", text |-> r.message],
      [line |-> "help", text |-> Msg("See https://github.com/TechEmpower/FrameworkBenchmarks/wiki/Project-Information-Framework-Tests-Overview#specific-test-requirements", <<>>, <<>>)]>>
    \o (IF r.url # "" THEN <<[line |-> "url", text |-> Msg(r.url, <<>>, <<>>)]>> ELSE <<>>)
    \o (IF r.headers # <<>> THEN <<[line |-> "headers", text |-> Msg("{}", <<>>, r.headers)]>> ELSE <<>>)
    \o (IF r.body # <<>> THEN <<[line |-> "body", text |-> Msg("{}", <<>>, r.body)]>> ELSE <<>>)

RECURSIVE AllRecordLines(_)
AllRecordLines(records) ==
    IF records = <<>> THEN <<>>
    ELSE RecordLines(Head(records)) \o AllRecordLines(Tail(records))

SummaryLine(tag) == [line |-> "summary", text |-> Msg(tag, <<>>, <<>>)]

\* mutant: PASS is printed whenever there are no errors
output_verification_results_PassWithoutErrors(m) ==
    (IF m.errors = <<>> THEN <<SummaryLine("PASS")>> ELSE <<>>)
    \o (IF m.warnings # <<>>
        THEN <<SummaryLine("WARN")>> \o AllRecordLines(m.warnings) ELSE <<>>)
    \o (IF m.errors # <<>>
        THEN <<SummaryLine("ERROR")>> \o AllRecordLines(m.errors) ELSE <<>>)

\* output_verification_results: the lines of one rendering
output_verification_results(m) ==
    (IF m.errors = <<>> /\ m.warnings = <<>> THEN <<SummaryLine("PASS")>> ELSE <<>>)
    \o (IF m.warnings # <<>>
        THEN <<SummaryLine("WARN")>> \o AllRecordLines(m.warnings) ELSE <<>>)
    \o (IF m.errors # <<>>
        THEN <<SummaryLine("ERROR")>> \o AllRecordLines(m.errors) ELSE <<>>)

(***************************************************************************)
(* Names (test_type/mod.rs, database/mod.rs).  A name is the sequence of   *)
(* its characters.                                                         *)
(***************************************************************************)
UpperCase == <<"A", "B", "C", "D", "E", "F", "G", "H", "I", "J", "K", "L", "M",
               "N", "O", "P", "Q", "R", "S", "T", "U", "V", "W", "X", "Y", "Z">>
LowerCase == <<"a", "b", "c", "d", "e", "f", "g", "h", "i", "j", "k", "l", "m",
               "n", "o", "p", "q", "r", "s", "t", "u", "v", "w", "x", "y", "z">>

to_lowercase_char(c) ==
    IF \E i \in 1..Len(UpperCase) : UpperCase[i] = c
    THEN LowerCase[CHOOSE i \in 1..Len(UpperCase) : UpperCase[i] = c]
    ELSE c

to_lowercase(str) == [i \in 1..Len(str) |-> to_lowercase_char(str[i])]

None == <<>>
Some(x) == <<x>>

\* #[derive(EnumString)] #[strum(serialize_all = "lowercase")] on TestType:
\* the serialized name of every variant; a variant with a field is parsed
\* with the field's default value
TestType_from_str(str) ==
    IF str = <<"j", "s", "o", "n">> THEN Some([tag |-> "Json", name |-> <<>>])
    ELSE IF str = <<"d", "b">> THEN Some([tag |-> "SingleQuery", name |-> <<>>])
    ELSE IF str = <<"c", "a", "c", "h", "e", "d", "_", "q", "u", "e", "r", "y">>
         THEN Some([tag |-> "CachedQuery", name |-> <<>>])
    ELSE IF str = <<"q", "u", "e", "r", "y">> THEN Some([tag |-> "MultiQuery", name |-> <<>>])
    ELSE IF str = <<"f", "o", "r", "t", "u", "n", "e">> THEN Some([tag |-> "Fortune", name |-> <<>>])
    ELSE IF str = <<"u", "p", "d", "a", "t", "e">> THEN Some([tag |-> "Update", name |-> <<>>])
    ELSE IF str = <<"p", "l", "a", "i", "n", "t", "e", "x", "t">>
         THEN Some([tag |-> "Plaintext", name |-> <<>>])
    ELSE IF str = <<"u", "n", "k", "n", "o", "w", "n">> THEN Some([tag |-> "Unknown", name |-> <<>>])
    ELSE None

TestType_get(test_type_name) ==
    LET parsed == TestType_from_str(to_lowercase(test_type_name))
    IN  IF parsed # None THEN parsed[1]
        ELSE [tag |-> "Unknown", name |-> test_type_name]

\* #[derive(EnumString)] #[strum(serialize_all = "lowercase")] on Database
Database_from_str(str) ==
    IF str = <<"m", "y", "s", "q", "l">> THEN Some("Mysql")
    ELSE IF str = <<"p", "o", "s", "t", "g", "r", "e", "s">> THEN Some("Postgres")
    ELSE IF str = <<"m", "o", "n", "g", "o", "d", "b">> THEN Some("Mongodb")
    ELSE None

\* Database::get: the interface of the vendor, or the line its own
\* Messages::default() prints and Err(InvalidDatabaseType(name))
Database_get(database_name) ==
    LET parsed == Database_from_str(to_lowercase(database_name))
    IN  IF parsed # None
        THEN [ok |-> TRUE, database |-> parsed, lines |-> <<>>,
              error |-> [kind |-> "none", arg |-> <<>>]]
        ELSE [ok |-> FALSE, database |-> None,
              lines |-> <<send_error(Msg("Invalid database type: {}", <<>>, database_name),
                                     "Invalid Database")>>,
              error |-> [kind |-> "InvalidDatabaseType", arg |-> database_name]]

NoExecutor == [tag |-> "none", database |-> None, name |-> <<>>]

\* Option::unwrap on the database inside a match arm of get_executor
Unwrapped(database, tag, name, lines) ==
    IF database = None
    THEN [result |-> "panic", executor |-> NoExecutor, lines |-> lines,
          error |-> [kind |-> "none", arg |-> <<>>]]
    ELSE [result |-> "ok", executor |-> [tag |-> tag, database |-> database, name |-> name],
          lines |-> lines, error |-> [kind |-> "none", arg |-> <<>>]]

\* TestType::get_executor
get_executor(self, database_name) ==
    LET got == IF database_name # None THEN Database_get(database_name[1])
               ELSE [ok |-> TRUE, database |-> None, lines |-> <<>>,
                     error |-> [kind |-> "none", arg |-> <<>>]]
    IN  IF ~got.ok
        THEN [result |-> "err", executor |-> NoExecutor, lines |-> got.lines,
              error |-> got.error]
        ELSE IF self.tag \in {"Json", "Plaintext"}
        THEN [result |-> "ok",
              executor |-> [tag |-> self.tag, database |-> None, name |-> <<>>],
              lines |-> got.lines, error |-> got.error]
        ELSE Unwrapped(got.database, self.tag, self.name, got.lines)

(***************************************************************************)
(* The database backend (database/mod.rs, database/mysql.rs).  db holds    *)
(* the raw counter the backend keeps for each kind of reconciliation.      *)
(***************************************************************************)
Kinds == {"queries", "rows", "updates"}

RECURSIVE Log2Floor(_)
Log2Floor(n) == IF n <= 1 THEN 0 ELSE 1 + Log2Floor(n \div 2)

RECURSIVE Pow2(_)
Pow2(n) == IF n = 0 THEN 1 ELSE 2 * Pow2(n - 1)

\* (count as f64 * 1.015) as usize.  The f64 nearest to 1.015 is
\* (203 * 2^52 - 88) / (200 * 2^52), so the exact product is
\* 203*count/200 - 88*count/(200 * 2^52), rounded to 53 significant bits and
\* then truncated.  The rounding only shows when 203*count/200 is an integer
\* q: the product then lies 88*(count/200) units of 2^-52 below q, the f64
\* spacing there is 2^Log2Floor(q) units, and the result is q when the
\* product rounds up to q and q - 1 when it rounds down.
F64MulTrunc1015(count) ==
    LET n == 203 * count
        q == n \div 200
    IN  IF count = 0 \/ n % 200 # 0 THEN q
        ELSE IF 2 * 88 * (count \div 200) < Pow2(Log2Floor(q)) THEN q
        ELSE q - 1

Mysql_get_count_of_rows_updated_for_table(raw) == F64MulTrunc1015(raw.updates)

\* the counter a reconciliation of this kind reads from this vendor
GetCount(kind, vendor, raw) ==
    IF vendor = "mysql" /\ kind = "updates"
    THEN Mysql_get_count_of_rows_updated_for_table(raw)
    ELSE raw[kind]

\* what one request of the target adds to the raw counters
Effect(i) == [queries |-> i, rows |-> i, updates |-> i]

AddEffect(raw, e) ==
    [k \in Kinds |-> raw[k] + e[k]]

\* no function is called on its own: the state of its variables in the other
\* specifications
CallIdle ==
    /\ call = [fn |-> "none"]
    /\ cpc = "idle"
    /\ ret = <<>>

\* no verify is running: the state of its variables in the other specifications
VerifyIdle ==
    /\ vpc = "idle"
    /\ vexec = "none"
    /\ overflow_checks = FALSE
    /\ concurrency_levels = {}
    /\ response_body = <<>>
    /\ verified = FALSE
    /\ inserted = 0

\* main is not running: the state of its variables in the other specifications
MainIdle ==
    /\ mpc = "idle"
    /\ env = [test_type_name |-> <<>>, database |-> None]
    /\ test_type = [tag |-> "none", name |-> <<>>]
    /\ executor = NoExecutor
    /\ outcome = [result |-> "running", error |-> [kind |-> "none", arg |-> <<>>]]

(***************************************************************************)
(* issue_multi_query_requests (database/mod.rs).                           *)
(***************************************************************************)
Workers == 1..num_cpus

\* lines 147-148: the outcome counters of one call
HarnessEnter ==
    /\ transaction_failures' = 0
    /\ transaction_successes' = 0
    /\ rep' = 0
    /\ issued' = <<>>
    /\ hpc' = "loop"
    /\ wpc' = [w \in Workers |-> "unspawned"]
    /\ requests_to_send' = 0

\* mutant: the remaining counter starts at concurrency
HarnessSpawn_FullCount ==
    /\ hpc = "loop"
    /\ rep < repetitions
    /\ requests_to_send' = concurrency
    /\ wpc' = [w \in Workers |-> "load"]
    /\ issued' = Append(issued, 0)
    /\ hpc' = "join"
    /\ UNCHANGED <<concurrency, repetitions, num_cpus, rep,
                   transaction_successes, transaction_failures>>
    /\ UNCHANGED <<msgVars, reconVars, restVars>>

\* lines 149-169: one pass of `for _ in 0..repetitions`: a fresh counter and
\* one job per cpu on a pool of that many threads
HarnessSpawn ==
    /\ hpc = "loop"
    /\ rep < repetitions
    /\ requests_to_send' = concurrency - 1
    /\ wpc' = [w \in Workers |-> "load"]
    /\ issued' = Append(issued, 0)
    /\ hpc' = "join"
    /\ UNCHANGED <<concurrency, repetitions, num_cpus, rep,
                   transaction_successes, transaction_failures>>
    /\ UNCHANGED <<msgVars, reconVars, restVars>>

\* mutant: a job that finds nothing left to send reads the counter again
WorkerLoad_NoBreak(w) ==
    /\ hpc = "join"
    /\ wpc[w] = "load"
    /\ LET remaining == requests_to_send
       IN  wpc' = [wpc EXCEPT ![w] = IF remaining <= 0 THEN "load" ELSE "request"]
    /\ UNCHANGED <<concurrency, repetitions, num_cpus, hpc, rep, requests_to_send,
                   transaction_successes, transaction_failures, issued>>
    /\ UNCHANGED <<msgVars, reconVars, restVars>>

\* lines 159-162
WorkerLoad(w) ==
    /\ hpc = "join"
    /\ wpc[w] = "load"
    /\ LET remaining == requests_to_send
       IN  wpc' = [wpc EXCEPT ![w] = IF remaining <= 0 THEN "done" ELSE "request"]
    /\ UNCHANGED <<concurrency, repetitions, num_cpus, hpc, rep, requests_to_send,
                   transaction_successes, transaction_failures, issued>>
    /\ UNCHANGED <<msgVars, reconVars, restVars>>

\* line 163: request(url); the target answers 200 or not and runs its queries
WorkerRequest(w) ==
    /\ hpc = "join"
    /\ wpc[w] = "request"
    /\ \E ok \in BOOLEAN, e \in incs :
        /\ wpc' = [wpc EXCEPT ![w] = IF ok THEN "fetch_add_ok" ELSE "fetch_add_err"]
        /\ db' = AddEffect(db, e)
    /\ issued' = [issued EXCEPT ![Len(issued)] = @ + 1]
    /\ UNCHANGED <<concurrency, repetitions, num_cpus, hpc, rep, requests_to_send,
                   transaction_successes, transaction_failures>>
    /\ UNCHANGED <<msgVars, restVars, rpc, check, incs, before_count, db_before, after_count>>

\* mutant: a failed request is counted as a failure and as a success
WorkerFetchAdd_CountsTwice(w) ==
    /\ hpc = "join"
    /\ wpc[w] \in {"fetch_add_ok", "fetch_add_err"}
    /\ IF wpc[w] = "fetch_add_ok"
       THEN /\ transaction_successes' = transaction_successes + 1
            /\ UNCHANGED transaction_failures
       ELSE /\ transaction_failures' = transaction_failures + 1
            /\ transaction_successes' = transaction_successes + 1
    /\ wpc' = [wpc EXCEPT ![w] = "fetch_sub"]
    /\ UNCHANGED <<concurrency, repetitions, num_cpus, hpc, rep, requests_to_send,
                   issued>>
    /\ UNCHANGED <<msgVars, reconVars, restVars>>

\* lines 164-165
WorkerFetchAdd(w) ==
    /\ hpc = "join"
    /\ wpc[w] \in {"fetch_add_ok", "fetch_add_err"}
    /\ IF wpc[w] = "fetch_add_ok"
       THEN /\ transaction_successes' = transaction_successes + 1
            /\ UNCHANGED transaction_failures
       ELSE /\ transaction_failures' = transaction_failures + 1
            /\ UNCHANGED transaction_successes
    /\ wpc' = [wpc EXCEPT ![w] = "fetch_sub"]
    /\ UNCHANGED <<concurrency, repetitions, num_cpus, hpc, rep, requests_to_send,
                   issued>>
    /\ UNCHANGED <<msgVars, reconVars, restVars>>

\* line 167
WorkerFetchSub(w) ==
    /\ hpc = "join"
    /\ wpc[w] = "fetch_sub"
    /\ requests_to_send' = requests_to_send - 1
    /\ wpc' = [wpc EXCEPT ![w] = "load"]
    /\ UNCHANGED <<concurrency, repetitions, num_cpus, hpc, rep,
                   transaction_successes, transaction_failures, issued>>
    /\ UNCHANGED <<msgVars, reconVars, restVars>>

\* mutant: the pool is left without waiting for its jobs
HarnessJoin_NoWait ==
    /\ hpc = "join"
    /\ rep' = rep + 1
    /\ hpc' = "loop"
    /\ UNCHANGED <<concurrency, repetitions, num_cpus, requests_to_send,
                   transaction_successes, transaction_failures, wpc, issued>>
    /\ UNCHANGED <<msgVars, reconVars, restVars>>

\* line 170: pool.join()
HarnessJoin ==
    /\ hpc = "join"
    /\ \A w \in Workers : wpc[w] = "done"
    /\ rep' = rep + 1
    /\ hpc' = "loop"
    /\ UNCHANGED <<concurrency, repetitions, num_cpus, requests_to_send,
                   transaction_successes, transaction_failures, wpc, issued>>
    /\ UNCHANGED <<msgVars, reconVars, restVars>>

\* lines 173-186: what the harness reports
HarnessFindings(failures, successes, c, r) ==
    (IF failures > 0
     THEN <<  <<"error", Msg("Failed response(s) from {}: {}", <<failures>>, <<messages.url>>),
               "Failed Response">>  >>
     ELSE <<>>)
    \o
    (IF successes # c * r
     THEN <<  <<"error", Msg("Unexpected response count from {}: {}", <<successes>>, <<messages.url>>),
               "Unexpected Responses">>  >>
     ELSE <<>>)

HarnessReport ==
    /\ hpc = "loop"
    /\ ~(rep < repetitions)
    /\ RaiseAll(HarnessFindings(transaction_failures, transaction_successes,
                                concurrency, repetitions))
    /\ hpc' = "returned"
    /\ UNCHANGED <<concurrency, repetitions, num_cpus, rep, requests_to_send,
                   transaction_successes, transaction_failures, wpc, issued>>
    /\ UNCHANGED <<reconVars, restVars>>

(***************************************************************************)
(* verify_queries_count, verify_rows_count (database/mod.rs) and           *)
(* verify_updates_count (test_type/query/updates.rs).                      *)
(***************************************************************************)
ShortLabel(kind) == IF kind = "queries" THEN "Too Few Queries" ELSE "Too Few Rows"

TooFewText(kind) ==
    IF kind = "queries"
    THEN "Only {} executed queries in the database out of roughly {} expected."
    ELSE IF kind = "rows"
    THEN "Only {} executed rows read in the database out of roughly {} expected."
    ELSE "Only {} executed rows updated in the database out of roughly {} expected."

\* mutant: the Error is raised for Less and for Equal
CompareFindings_LessOrEqual(kind, delta, expected) ==
    IF delta <= expected
    THEN <<  <<"error", Msg(TooFewText(kind), <<delta, expected>>, <<>>),
              ShortLabel(kind)>>  >>
    ELSE <<>>

\* mutant: Greater raises a Warning
CompareFindings_WarnGreater(kind, delta, expected) ==
    IF delta < expected
    THEN <<  <<"error", Msg(TooFewText(kind), <<delta, expected>>, <<>>),
              ShortLabel(kind)>>  >>
    ELSE IF delta > expected
    THEN <<  <<"warning", Msg(TooFewText(kind), <<delta, expected>>, <<>>),
              ShortLabel(kind)>>  >>
    ELSE <<>>

\* the comparison after the second read: cmp::Ordering::Less raises the Error
CompareFindings(kind, delta, expected) ==
    IF delta < expected
    THEN <<  <<"error", Msg(TooFewText(kind), <<delta, expected>>, <<>>),
              ShortLabel(kind)>>  >>
    ELSE <<>>

\* the first read of the counter, then the call of the harness
ReconBefore ==
    /\ rpc = "before"
    /\ before_count' = GetCount(check.kind, check.vendor, db)
    /\ db_before' = db
    /\ HarnessEnter
    /\ rpc' = "harness"
    /\ UNCHANGED <<concurrency, repetitions, num_cpus>>
    /\ UNCHANGED <<msgVars, restVars, check, db, incs, after_count>>

\* mutant: the second read is taken while the harness is still at work
ReconAfter_BeforeDrain ==
    /\ rpc = "harness"
    /\ hpc \in {"join", "returned"}
    /\ LET after == GetCount(check.kind, check.vendor, db)
       IN  /\ after_count' = after
           /\ RaiseAll(CompareFindings(check.kind, after - before_count,
                                       check.expected))
    /\ rpc' = "returned"
    /\ hpc' = "idle"
    /\ UNCHANGED <<concurrency, repetitions, num_cpus, rep, requests_to_send,
                   transaction_successes, transaction_failures, wpc, issued>>
    /\ UNCHANGED <<restVars, check, db, incs, before_count, db_before>>

\* the second read once the harness has returned, and the comparison
ReconAfter ==
    /\ rpc = "harness"
    /\ hpc = "returned"
    /\ LET after == GetCount(check.kind, check.vendor, db)
       IN  /\ after_count' = after
           /\ RaiseAll(CompareFindings(check.kind, after - before_count,
                                       check.expected))
    /\ rpc' = "returned"
    /\ hpc' = "idle"
    /\ UNCHANGED <<concurrency, repetitions, num_cpus, rep, requests_to_send,
                   transaction_successes, transaction_failures, wpc, issued>>
    /\ UNCHANGED <<restVars, check, db, incs, before_count, db_before>>

HarnessNext ==
    \/ HarnessSpawn
    \/ \E w \in Workers : WorkerLoad(w)
    \/ \E w \in Workers : WorkerRequest(w)
    \/ \E w \in Workers : WorkerFetchAdd(w)
    \/ \E w \in Workers : WorkerFetchSub(w)
    \/ HarnessJoin
    \/ HarnessReport

ReconNext ==
    \/ ReconBefore
    \/ ReconAfter

(***************************************************************************)
(* Spec: one reconciliation on a fresh Messages, for every argument.       *)
(***************************************************************************)
Checks ==
    {[kind |-> k, vendor |-> v, expected |-> e] :
        k \in Kinds, v \in {"generic"}, e \in 0..MaxExpected}

Init ==
    /\ messages = Messages_new("url")
    /\ stdout = <<>>
    /\ raised = <<>>
    /\ concurrency \in 0..ReconMaxConcurrency
    /\ repetitions \in 0..ReconMaxRepetitions
    /\ num_cpus \in 1..ReconMaxCpus
    /\ hpc = "idle"
    /\ rep = 0
    /\ requests_to_send = 0
    /\ transaction_successes = 0
    /\ transaction_failures = 0
    /\ wpc = [w \in 1..num_cpus |-> "unspawned"]
    /\ issued = <<>>
    /\ rpc = "before"
    /\ check \in Checks
    /\ db = Effect(0)
    /\ incs = {Effect(i) : i \in 0..MaxInc}
    /\ before_count = 0
    /\ db_before = Effect(0)
    /\ after_count = 0
    /\ rendered = <<>>
    /\ MainIdle
    /\ CallIdle
    /\ VerifyIdle

Next == HarnessNext \/ ReconNext

Spec == Init /\ [][Next]_vars

(***************************************************************************)
(* SpecHarness: one call of issue_multi_query_requests on a fresh          *)
(* Messages, for every concurrency, repetitions and pool size; each        *)
(* request adds one to every raw counter.                                  *)
(***************************************************************************)
InitHarness ==
    /\ messages = Messages_new("url")
    /\ stdout = <<>>
    /\ raised = <<>>
    /\ concurrency \in 0..MaxConcurrency
    /\ repetitions \in 0..MaxRepetitions
    /\ num_cpus \in 1..MaxCpus
    /\ hpc = "loop"
    /\ rep = 0
    /\ requests_to_send = 0
    /\ transaction_successes = 0
    /\ transaction_failures = 0
    /\ wpc = [w \in 1..num_cpus |-> "unspawned"]
    /\ issued = <<>>
    /\ rpc = "idle"
    /\ check = [kind |-> "queries", vendor |-> "generic", expected |-> 0]
    /\ db = Effect(0)
    /\ incs = {Effect(1)}
    /\ before_count = 0
    /\ db_before = Effect(0)
    /\ after_count = 0
    /\ rendered = <<>>
    /\ MainIdle
    /\ CallIdle
    /\ VerifyIdle

SpecHarness == InitHarness /\ [][HarnessNext]_vars

\* one step of the job the pool runs on thread w
WorkerStep(w) ==
    WorkerLoad(w) \/ WorkerRequest(w) \/ WorkerFetchAdd(w) \/ WorkerFetchSub(w)

\* one step of the thread that called issue_multi_query_requests
HarnessStep == HarnessSpawn \/ HarnessJoin \/ HarnessReport

\* the harness with every thread scheduled again and again and every
\* request(url) returning
SpecHarnessFair ==
    /\ InitHarness
    /\ [][HarnessNext]_vars
    /\ WF_vars(HarnessStep)
    /\ \A w \in 1..MaxCpus : WF_vars(w \in Workers /\ WorkerStep(w))

(***************************************************************************)
(* SpecMargin: verify_updates_count against the MySQL backend, whose       *)
(* rows-updated counter is read through the 1.5% compensation.             *)
(***************************************************************************)
MarginStarts == {0, 50, 200}
MarginIncs == {0, 39, 99}
MarginExpected == {40, 100}

InitMargin ==
    /\ messages = Messages_new("url")
    /\ stdout = <<>>
    /\ raised = <<>>
    /\ concurrency \in 0..ReconMaxConcurrency
    /\ repetitions \in 0..ReconMaxRepetitions
    /\ num_cpus \in 1..ReconMaxCpus
    /\ hpc = "idle"
    /\ rep = 0
    /\ requests_to_send = 0
    /\ transaction_successes = 0
    /\ transaction_failures = 0
    /\ wpc = [w \in 1..num_cpus |-> "unspawned"]
    /\ issued = <<>>
    /\ rpc = "before"
    /\ check \in {[kind |-> "updates", vendor |-> "mysql", expected |-> e] :
                    e \in MarginExpected}
    /\ db \in {Effect(i) : i \in MarginStarts}
    /\ incs = {Effect(i) : i \in MarginIncs}
    /\ before_count = 0
    /\ db_before = Effect(0)
    /\ after_count = 0
    /\ rendered = <<>>
    /\ MainIdle
    /\ CallIdle
    /\ VerifyIdle

SpecMargin == InitMargin /\ [][Next]_vars

(***************************************************************************)
(* SpecMessages: any caller of the public interface of one Messages:       *)
(* body, headers, error, warning and output_verification_results in any    *)
(* order.                                                                  *)
(***************************************************************************)
MaxRaised == 2
MaxRenders == 1

SampleUrls == {"", "http://tfb-server:8080/plaintext"}
SampleBodies ==
    {<<>>, <<"H", "e", "l", "l", "o", ",", " ", "W", "o", "r", "l", "d", "!">>}
SampleHeaderMaps ==
    {[k \in {"Server", "Date"} |->
        IF k = "Server" THEN "tfb" ELSE "Mon, 01 Jan 2024 00:00:00 GMT"]}
SampleMessages == {Msg("first finding", <<>>, <<>>), Msg("second finding", <<>>, <<>>)}

InitMessages ==
    /\ messages \in {Messages_new(u) : u \in SampleUrls}
    /\ stdout = <<>>
    /\ raised = <<>>
    /\ rendered = <<>>
    /\ MainIdle
    /\ CallIdle
    /\ VerifyIdle
    /\ concurrency = 0
    /\ repetitions = 0
    /\ num_cpus = 1
    /\ hpc = "idle"
    /\ rep = 0
    /\ requests_to_send = 0
    /\ transaction_successes = 0
    /\ transaction_failures = 0
    /\ wpc = [w \in 1..num_cpus |-> "unspawned"]
    /\ issued = <<>>
    /\ rpc = "idle"
    /\ check = [kind |-> "queries", vendor |-> "generic", expected |-> 0]
    /\ db = Effect(0)
    /\ incs = {Effect(0)}
    /\ before_count = 0
    /\ db_before = Effect(0)
    /\ after_count = 0

CallBody ==
    /\ \E b \in SampleBodies : messages' = Messages_body(messages, b)
    /\ UNCHANGED <<stdout, raised, rendered, nonMsgVars>>

CallHeaders ==
    /\ \E map \in SampleHeaderMaps : \E order \in Orders(map) :
          messages' = Messages_headers(messages, order)
    /\ UNCHANGED <<stdout, raised, rendered, nonMsgVars>>

CallError ==
    /\ Len(raised) < MaxRaised
    /\ \E message \in SampleMessages : RaiseError(message, "Short")
    /\ UNCHANGED <<rendered, nonMsgVars>>

CallWarning ==
    /\ Len(raised) < MaxRaised
    /\ \E message \in SampleMessages : RaiseWarning(message, "Short")
    /\ UNCHANGED <<rendered, nonMsgVars>>

CallRender ==
    /\ Len(rendered) < MaxRenders
    /\ rendered' = Append(rendered, output_verification_results(messages))
    /\ UNCHANGED <<msgVars, nonMsgVars>>

NextMessages ==
    \/ CallBody
    \/ CallHeaders
    \/ CallError
    \/ CallWarning
    \/ CallRender

SpecMessages == InitMessages /\ [][NextMessages]_vars

(***************************************************************************)
(* SpecMain: main (main.rs) in verify mode, from the environment to the    *)
(* executor, and the run of the Unknown executor.                          *)
(***************************************************************************)
SampleTestTypeNames ==
    {<<"j", "s", "o", "n">>, <<"J", "S", "O", "N">>, <<"d", "b">>,
     <<"q", "u", "e", "r", "y">>,
     <<"c", "a", "c", "h", "e", "d", "_", "q", "u", "e", "r", "y">>,
     <<"F", "o", "r", "t", "u", "n", "e">>, <<"u", "p", "d", "a", "t", "e">>,
     <<"p", "l", "a", "i", "n", "t", "e", "x", "t">>,
     <<"u", "n", "k", "n", "o", "w", "n">>, <<"f", "o", "o">>, <<>>}

SampleDatabases ==
    {None, Some(<<"m", "y", "s", "q", "l">>), Some(<<"M", "y", "S", "Q", "L">>),
     Some(<<"p", "o", "s", "t", "g", "r", "e", "s">>),
     Some(<<"m", "o", "n", "g", "o", "d", "b">>),
     Some(<<"o", "r", "a", "c", "l", "e">>), Some(<<>>)}

InitMain ==
    /\ messages = Messages_default
    /\ stdout = <<>>
    /\ raised = <<>>
    /\ rendered = <<>>
    /\ mpc = "start"
    /\ env \in [test_type_name : SampleTestTypeNames, database : SampleDatabases]
    /\ test_type = [tag |-> "none", name |-> <<>>]
    /\ executor = NoExecutor
    /\ outcome = [result |-> "running", error |-> [kind |-> "none", arg |-> <<>>]]
    /\ concurrency = 0
    /\ repetitions = 0
    /\ num_cpus = 1
    /\ hpc = "idle"
    /\ rep = 0
    /\ requests_to_send = 0
    /\ transaction_successes = 0
    /\ transaction_failures = 0
    /\ wpc = [w \in 1..num_cpus |-> "unspawned"]
    /\ issued = <<>>
    /\ rpc = "idle"
    /\ check = [kind |-> "queries", vendor |-> "generic", expected |-> 0]
    /\ db = Effect(0)
    /\ incs = {Effect(0)}
    /\ before_count = 0
    /\ db_before = Effect(0)
    /\ after_count = 0
    /\ VerifyIdle
    /\ CallIdle

\* main.rs line 35
MainGetTestType ==
    /\ mpc = "start"
    /\ test_type' = TestType_get(env.test_type_name)
    /\ mpc' = "resolved"
    /\ UNCHANGED <<env, executor, outcome, msgVars, rendered, harnessVars, reconVars, verifyVars, callVars>>

\* main.rs lines 38-48: get_executor(..)?
MainGetExecutor ==
    /\ mpc = "resolved"
    /\ LET got == get_executor(test_type, env.database)
       IN  /\ stdout' = stdout \o got.lines
           /\ executor' = got.executor
           /\ outcome' = IF got.result = "ok" THEN outcome
                         ELSE [result |-> got.result, error |-> got.error]
           /\ mpc' = IF got.result = "ok" THEN "built" ELSE "exit"
    /\ UNCHANGED <<env, test_type, messages, raised, rendered, harnessVars, reconVars, verifyVars, callVars>>

\* main.rs line 65 on the Unknown executor: Unknown::verify (unknown.rs)
UnknownVerify ==
    /\ mpc = "built"
    /\ executor.tag = "Unknown"
    /\ stdout' = Append(stdout,
                    send_error(Msg("Unknown test type: {}", <<>>, executor.name),
                               "Unknown Test"))
    /\ messages' = Messages_error(Messages_new("url"),
                                  Msg("Unknown test type: {}", <<>>, executor.name))
    /\ raised' = Append(raised,
                    [kind |-> "error",
                     message |-> Msg("Unknown test type: {}", <<>>, executor.name)])
    /\ mpc' = "verified"
    /\ UNCHANGED <<env, test_type, executor, outcome, rendered, harnessVars, reconVars, verifyVars, callVars>>

\* main.rs lines 66-73
MainRender ==
    /\ mpc = "verified"
    /\ rendered' = Append(rendered, output_verification_results(messages))
    /\ outcome' = [result |-> "ok", error |-> [kind |-> "none", arg |-> <<>>]]
    /\ mpc' = "exit"
    /\ UNCHANGED <<env, test_type, executor, msgVars, harnessVars, reconVars, verifyVars, callVars>>

NextMain ==
    \/ MainGetTestType
    \/ MainGetExecutor
    \/ UnknownVerify
    \/ MainRender

SpecMain == InitMain /\ [][NextMain]_vars

(***************************************************************************)
(* Requests (request.rs).  The result of a fetch is an input of the step   *)
(* that makes it.                                                          *)
(***************************************************************************)
\* get_response_headers: what it raises before returning Err(CurlError)
get_response_headers_findings(url, fetched) ==
    IF fetched.ok THEN <<>>
    ELSE <<  <<"error", Msg("Error requesting headers for url: {}, {:?}", <<>>, <<url>>),
              "Header(s) Error">>  >>

\* get_response_body: what it raises when it returns None
get_response_body_findings(url, fetched) ==
    IF fetched.kind = "ok" THEN <<>>
    ELSE IF fetched.kind = "Non200Response"
    THEN <<  <<"error", Msg("Non-200 response from {}: {}", <<fetched.code>>, <<url>>),
              "Non-200 response">>  >>
    ELSE IF fetched.kind = "RequestError"
    THEN <<  <<"error", Msg("Error requesting {}: {}", <<>>, <<url>>), "Request error">>  >>
    ELSE <<  <<"error", Msg("Unknown error requesting {}: {:?}", <<>>, <<url>>),
              "Unknown error">>  >>

(***************************************************************************)
(* verify_headers_internal (test_type/mod.rs).  A header map is a function *)
(* from the keys as the response spelled them to the values.               *)
(***************************************************************************)
contains_key(headers, key) == key \in DOMAIN headers

HashMap_get(headers, key) == IF key \in DOMAIN headers THEN Some(headers[key]) ELSE None

\* chrono::DateTime::parse_from_rfc2822 on the dates of the sample
\* responses: the instant in seconds after the first one, or None
parse_from_rfc2822(str) ==
    IF str = "Thu, 05 Nov 2026 12:00:00 GMT" THEN Some(0)
    ELSE IF str = "Thu, 05 Nov 2026 13:00:00 +0100" THEN Some(0)
    ELSE IF str = "Thu, 05 Nov 2026 12:00:03 GMT" THEN Some(3)
    ELSE None

\* the strings each Content-Type pattern matches
ContentTypePattern(should_be) ==
    IF should_be = "Json" THEN "^application/json(; ?charset=(UTF|utf)-8)?$"
    ELSE IF should_be = "Html" THEN "^text/html; ?charset=(UTF|utf)-8$"
    ELSE "^text/plain(; ?charset=(UTF|utf)-8)?$"

ContentTypeMatches(should_be) ==
    IF should_be = "Json"
    THEN {"application/json", "application/json;charset=UTF-8",
          "application/json; charset=UTF-8", "application/json;charset=utf-8",
          "application/json; charset=utf-8"}
    ELSE IF should_be = "Html"
    THEN {"text/html;charset=UTF-8", "text/html; charset=UTF-8",
          "text/html;charset=utf-8", "text/html; charset=utf-8"}
    ELSE {"text/plain", "text/plain;charset=UTF-8", "text/plain; charset=UTF-8",
          "text/plain;charset=utf-8", "text/plain; charset=utf-8"}

MissingHeader(text) == <<  <<"error", Msg(text, <<>>, <<>>), "Missing header">>  >>

\* lines 179-209: the Date header and the second request
DateFindings(headers, url, should_retest, refetch) ==
    LET date_str == IF HashMap_get(headers, "Date") # None
                    THEN HashMap_get(headers, "Date")
                    ELSE HashMap_get(headers, "date")
    IN  IF date_str = None THEN <<>>
        ELSE IF parse_from_rfc2822(date_str[1]) = None
        THEN <<  <<"warning",
                  Msg("Invalid Date header, found \"{}\", did not match \"%a, %d %b %Y %H:%M:%S %Z\".",
                      <<>>, <<date_str[1]>>),
                  "Invalid Date">>  >>
        ELSE IF ~should_retest THEN <<>>
        ELSE get_response_headers_findings(url, refetch)
             \o (IF /\ refetch.ok
                    /\ HashMap_get(refetch.headers, "Date") # None
                    /\ parse_from_rfc2822(refetch.headers["Date"]) # None
                    /\ parse_from_rfc2822(refetch.headers["Date"])
                         = parse_from_rfc2822(date_str[1])
                 THEN <<  <<"error",
                           Msg("Invalid Cached Date. Found \"{}\" and \"{}\" on separate requests.",
                               <<>>, <<date_str[1], refetch.headers["Date"]>>),
                           "Cached Date">>  >>
                 ELSE <<>>)

\* lines 210-253
ContentTypeFindings(headers, should_be) ==
    LET content_type == IF HashMap_get(headers, "Content-Type") # None
                        THEN HashMap_get(headers, "Content-Type")
                        ELSE HashMap_get(headers, "content-type")
    IN  IF content_type # None /\ content_type[1] \notin ContentTypeMatches(should_be)
        THEN <<  <<"error",
                  Msg("Invalid Content-Type header, found \"{}\", did not match \"{}\".",
                      <<>>, <<content_type[1], ContentTypePattern(should_be)>>),
                  "Invalid Content-Type">>  >>
        ELSE <<>>

\* mutant: the size header is never required
verify_headers_internal_NoSizeCheck(headers, url, should_be, should_retest, refetch) ==
    (IF ~contains_key(headers, "Server") /\ ~contains_key(headers, "server")
     THEN MissingHeader("Required response header missing: Server") ELSE <<>>)
    \o (IF ~contains_key(headers, "Date") /\ ~contains_key(headers, "date")
        THEN MissingHeader("Required response header missing: Date") ELSE <<>>)
    \o (IF ~contains_key(headers, "Content-Type") /\ ~contains_key(headers, "content-type")
        THEN MissingHeader("Required response header missing: Content-Type") ELSE <<>>)
    \o DateFindings(headers, url, should_retest, refetch)
    \o ContentTypeFindings(headers, should_be)

verify_headers_internal(headers, url, should_be, should_retest, refetch) ==
    (IF ~contains_key(headers, "Server") /\ ~contains_key(headers, "server")
     THEN MissingHeader("Required response header missing: Server") ELSE <<>>)
    \o (IF ~contains_key(headers, "Date") /\ ~contains_key(headers, "date")
        THEN MissingHeader("Required response header missing: Date") ELSE <<>>)
    \o (IF ~contains_key(headers, "Content-Type") /\ ~contains_key(headers, "content-type")
        THEN MissingHeader("Required response header missing: Content-Type") ELSE <<>>)
    \o (IF /\ ~contains_key(headers, "Content-Length")
           /\ ~contains_key(headers, "content-length")
           /\ ~contains_key(headers, "Transfer-Encoding")
           /\ ~contains_key(headers, "transfer-encoding")
        THEN MissingHeader("Required response size header missing, please include either \"Content-Length\" or \"Transfer-Encoding\"")
        ELSE <<>>)
    \o DateFindings(headers, url, should_retest, refetch)
    \o ContentTypeFindings(headers, should_be)

\* Executor::verify_headers
verify_headers(headers, url, should_be, refetch) ==
    verify_headers_internal(headers, url, should_be, TRUE, refetch)

(***************************************************************************)
(* A run of a verify on its own Messages: the Messages, the lines printed  *)
(* and the findings raised so far.                                         *)
(***************************************************************************)
Started(m) == [m |-> m, lines |-> <<>>, raised |-> <<>>]

Raise(run, fs) ==
    [m |-> ApplyFindings(run.m, fs),
     lines |-> run.lines \o FindingLines(fs),
     raised |-> run.raised \o FindingRaised(fs)]

Ended(run, how) == [m |-> run.m, lines |-> run.lines, raised |-> run.raised, how |-> how]

(***************************************************************************)
(* Plaintext (test_type/plaintext.rs).                                     *)
(***************************************************************************)
contains(str, pattern) ==
    \E i \in 0..(Len(str) - Len(pattern)) : SubSeq(str, i + 1, i + Len(pattern)) = pattern

\* a - b on usize.  A build with overflow checks panics when b > a; one
\* without wraps to 2^64 - (b - a), written as the record of that base and
\* offset
usize_sub(a, b, checks) ==
    IF a >= b THEN [panic |-> FALSE, base |-> "0", offset |-> a - b]
    ELSE IF checks THEN [panic |-> TRUE, base |-> "0", offset |-> 0]
    ELSE [panic |-> FALSE, base |-> "2^64", offset |-> a - b]

usize_positive(n) == n.base = "2^64" \/ n.offset > 0

PlaintextExpected == <<"h", "e", "l", "l", "o", ",", " ", "w", "o", "r", "l", "d", "!">>

\* verify_plaintext on a body of one-byte characters
verify_plaintext(response_body_, checks) ==
    LET body == to_lowercase(response_body_)
        expected == PlaintextExpected
        extra_bytes == usize_sub(Len(body), Len(expected), checks)
    IN  IF extra_bytes.panic THEN [panic |-> TRUE, findings |-> <<>>]
        ELSE [panic |-> FALSE,
              findings |->
                (IF ~contains(body, expected)
                 THEN <<  <<"error",
                           Msg("Could not find 'Hello, World!' in response: '{}'", <<>>, body),
                           "Invalid response body">>  >>
                 ELSE <<>>)
                \o (IF usize_positive(extra_bytes)
                    THEN <<  <<"warning",
                              Msg("Server is returning {} more bytes than are required. This may negatively affect benchmark performance.",
                                  <<extra_bytes>>, <<>>),
                              "Additional response byte(s)">>  >>
                    ELSE <<>>)]

\* Plaintext::verify
Plaintext_verify(url, first, order, refetch, fetched, checks) ==
    LET s1 == Raise(Started(Messages_new(url)), get_response_headers_findings(url, first))
    IN  IF ~first.ok THEN Ended(s1, "failed")
        ELSE
        LET s2 == [s1 EXCEPT !.m = Messages_headers(@, order)]
            s3 == Raise(s2, verify_headers(first.headers, url, "Plaintext", refetch))
            s4 == Raise(s3, get_response_body_findings(url, fetched))
        IN  IF fetched.kind # "ok" THEN Ended(s4, "returned")
            ELSE
            LET s5 == [s4 EXCEPT !.m = Messages_body(@, fetched.body)]
                checked == verify_plaintext(fetched.body, checks)
            IN  IF checked.panic THEN Ended(s5, "panicked")
                ELSE Ended(Raise(s5, checked.findings), "returned")

(***************************************************************************)
(* Fortune (test_type/fortune.rs).  A fortune response is a sequence of    *)
(* at most one piece, the page the target sent; what the code reads of a   *)
(* page is listed in Pages.                                                *)
(***************************************************************************)
FortunesChars == 1195
FortunesBytes == 1227
MoreFortunesChars == 45121
MoreFortunesBytes == 73153
TruncateAt == 500
FortuneRepetitions == 2
FortuneRowsPerQuery == 12

\* joined: the bytes of the page with its line breaks removed
\* boundary: whether byte TruncateAt of that string starts a character
\* fortunes: whether normalize_html gives FORTUNES, letter case aside
\* chars, bytes: the length of what normalize_html gives
Pages ==
    [fortunes      |-> [joined |-> 1227, boundary |-> TRUE, fortunes |-> TRUE,
                        chars |-> FortunesChars, bytes |-> FortunesBytes],
     more_fortunes |-> [joined |-> 73153, boundary |-> TRUE, fortunes |-> FALSE,
                        chars |-> MoreFortunesChars, bytes |-> MoreFortunesBytes],
     short_error   |-> [joined |-> 21, boundary |-> TRUE, fortunes |-> FALSE,
                        chars |-> 21, bytes |-> 21],
     split_at_500  |-> [joined |-> 600, boundary |-> FALSE, fortunes |-> FALSE,
                        chars |-> 200, bytes |-> 600]]

Page(name) == <<[page |-> name, form |-> "raw"]>>

PageInfo(response) ==
    IF response = <<>>
    THEN [joined |-> 0, boundary |-> TRUE, fortunes |-> FALSE, chars |-> 0, bytes |-> 0]
    ELSE Pages[response[1].page]

\* for line in response_body.lines() { accumulator.push_str(line) }
JoinLines(response) == [i \in 1..Len(response) |-> [response[i] EXCEPT !.form = "joined"]]

\* &accumulator[..500]: panics past the end or inside a character
SliceTo(accumulator, response, at) ==
    IF PageInfo(response).joined < at \/ ~PageInfo(response).boundary
    THEN [panic |-> TRUE, str |-> <<>>]
    ELSE [panic |-> FALSE,
          str |-> [i \in 1..Len(accumulator) |-> [accumulator[i] EXCEPT !.form = "joined[..500]"]]]

\* verify_fortune
verify_fortune(response) ==
    IF ~PageInfo(response).fortunes
    THEN [verified |-> FALSE,
          findings |-> <<  <<"error",
                            Msg("Invalid fortunes; expected {} but received {}", <<>>,
                                <<"FORTUNES", JoinLines(response)>>),
                            "Invalid Fortunes">>  >>]
    ELSE [verified |-> TRUE, findings |-> <<>>]

\* verify_fortunes_are_dynamically_sized, on the response of its request
verify_fortunes_are_dynamically_sized(run, response) ==
    LET sliced == SliceTo(JoinLines(response), response, TruncateAt)
    IN  IF sliced.panic THEN Ended(run, "panicked")
        ELSE
        LET s1 == [run EXCEPT !.m = Messages_body(@, sliced.str \o <<"...">>)]
        IN  Ended(Raise(s1,
                        IF PageInfo(response).chars # MoreFortunesChars
                        THEN <<  <<"error",
                                  Msg("Fortunes not dynamically sized. Expected length: {}; actual length: {}",
                                      <<MoreFortunesBytes, PageInfo(response).bytes>>, <<>>),
                                  "Non-dynamic Fortune">>  >>
                        ELSE <<>>),
                  "returned")

\* Fortune::verify, lines 40-59
Fortune_verify_head(url, first, order, refetch, response) ==
    LET s1 == Raise(Started(Messages_new(url)), get_response_headers_findings(url, first))
    IN  IF ~first.ok THEN Ended(s1, "failed")
        ELSE
        LET s2 == [s1 EXCEPT !.m = Messages_headers(@, order)]
            s3 == Raise(s2, verify_headers(first.headers, url, "Html", refetch))
            s4 == [s3 EXCEPT !.m = Messages_body(@, JoinLines(response))]
        IN  Ended(Raise(s4, verify_fortune(response).findings), "queries")

(***************************************************************************)
(* SpecVerify: Plaintext::verify and Fortune::verify against every sample  *)
(* target, in a build with and in one without overflow checks.             *)
(***************************************************************************)
MaxLevel == 2
VerifyMaxCpus == 2

SetMax(S) == CHOOSE x \in S : \A y \in S : y <= x

PlainHeaders ==
    [k \in {"Server", "Date", "Content-Type", "Content-Length"} |->
        IF k = "Server" THEN "tfb"
        ELSE IF k = "Date" THEN "Thu, 05 Nov 2026 12:00:00 GMT"
        ELSE IF k = "Content-Type" THEN "text/plain"
        ELSE "13"]

HtmlHeaders ==
    [k \in {"date", "content-type"} |->
        IF k = "date" THEN "Thu, 05 Nov 2026 12:00:00 GMT"
        ELSE "text/html; charset=utf-8"]

LaterHeaders == [k \in {"Date"} |-> "Thu, 05 Nov 2026 12:00:03 GMT"]

SameInstantHeaders == [k \in {"Date"} |-> "Thu, 05 Nov 2026 13:00:00 +0100"]

BadDateHeaders == [k \in {"Date", "Transfer-Encoding"} |->
                    IF k = "Date" THEN "2026-11-05 12:00:00" ELSE "chunked"]

NoHeaders == [k \in {} |-> ""]

Fetched(headers) == [ok |-> TRUE, headers |-> headers]

FailedHeaders == [ok |-> FALSE, headers |-> NoHeaders]

FirstHeaderResults ==
    {FailedHeaders, Fetched(PlainHeaders), Fetched(HtmlHeaders), Fetched(BadDateHeaders),
     Fetched(NoHeaders)}

FortuneHeaderResults == {FailedHeaders, Fetched(HtmlHeaders)}

\* the second request is only made after a first Date that parses
RefetchResults(first) ==
    IF /\ first.ok
       /\ \E k \in {"Date", "date"} :
            contains_key(first.headers, k) /\ parse_from_rfc2822(first.headers[k]) # None
    THEN {FailedHeaders, Fetched(LaterHeaders), Fetched(SameInstantHeaders),
          Fetched(HtmlHeaders)}
    ELSE {FailedHeaders}

OkBody(body) == [kind |-> "ok", body |-> body, code |-> 200]

PlaintextBodyResults ==
    {OkBody(<<>>),
     OkBody(<<"H", "e", "l", "l", "o">>),
     OkBody(<<"H", "e", "l", "l", "o", ",", " ", "W", "o", "r", "l", "d", "!">>),
     OkBody(<<"H", "E", "L", "L", "O", ",", " ", "W", "O", "R", "L", "D", "!">>),
     OkBody(<<"H", "e", "l", "l", "o", ",", " ", "W", "o", "r", "l", "d", "!", "\n">>),
     OkBody(<<"G", "o", "o", "d", "b", "y", "e", ",", " ", "W", "o", "r", "l", "d">>),
     [kind |-> "Non200Response", body |-> <<>>, code |-> 500],
     [kind |-> "RequestError", body |-> <<>>, code |-> 0],
     [kind |-> "CurlError", body |-> <<>>, code |-> 0]}

\* the requests of Fortune::verify that the model follows are the ones the
\* target answers with status 200
FortuneResponses == {<<>>, Page("fortunes"), Page("short_error")}

MoreFortuneResponses ==
    {<<>>, Page("fortunes"), Page("more_fortunes"), Page("short_error"),
     Page("split_at_500")}

\* what one request of the fortune test adds to the backend's counters
FortuneEffects == {[queries |-> 1, rows |-> FortuneRowsPerQuery, updates |-> 0]}

InitVerify ==
    /\ messages = Messages_default
    /\ stdout = <<>>
    /\ raised = <<>>
    /\ rendered = <<>>
    /\ MainIdle
    /\ CallIdle
    /\ vpc = "start"
    /\ vexec \in {"Plaintext", "Fortune"}
    /\ overflow_checks \in BOOLEAN
    /\ concurrency_levels \in {1..n : n \in 1..MaxLevel}
    /\ response_body = <<>>
    /\ verified = FALSE
    /\ inserted = 0
    /\ concurrency = 0
    /\ repetitions = 0
    /\ num_cpus \in 1..VerifyMaxCpus
    /\ hpc = "idle"
    /\ rep = 0
    /\ requests_to_send = 0
    /\ transaction_successes = 0
    /\ transaction_failures = 0
    /\ wpc = [w \in 1..num_cpus |-> "unspawned"]
    /\ issued = <<>>
    /\ rpc = "idle"
    /\ check = [kind |-> "queries", vendor |-> "generic", expected |-> 0]
    /\ db = Effect(0)
    /\ incs = FortuneEffects
    /\ before_count = 0
    /\ db_before = Effect(0)
    /\ after_count = 0

\* the run of a verify becomes the state
Land(run) ==
    /\ messages' = run.m
    /\ stdout' = stdout \o run.lines
    /\ raised' = raised \o run.raised
    /\ vpc' = run.how

\* Plaintext::verify
PlaintextVerify ==
    /\ vpc = "start"
    /\ vexec = "Plaintext"
    /\ \E first \in FirstHeaderResults, fetched \in PlaintextBodyResults :
        \E order \in Orders(first.headers), refetch \in RefetchResults(first) :
            Land(Plaintext_verify("url", first, order, refetch, fetched, overflow_checks))
    /\ UNCHANGED <<vexec, overflow_checks, concurrency_levels, response_body, verified,
                   inserted>>
    /\ UNCHANGED <<rendered, mainVars, callVars, harnessVars, reconVars>>

\* Fortune::verify, lines 40-67: up to the call of verify_queries_count
FortuneVerifyHead ==
    /\ vpc = "start"
    /\ vexec = "Fortune"
    /\ \E first \in FortuneHeaderResults, response \in FortuneResponses :
        \E order \in Orders(first.headers), refetch \in RefetchResults(first) :
            /\ Land(Fortune_verify_head("url", first, order, refetch, response))
            /\ response_body' = response
            /\ verified' = (first.ok /\ verify_fortune(response).verified)
            /\ rpc' = IF first.ok THEN "before" ELSE rpc
    /\ repetitions' = FortuneRepetitions
    /\ concurrency' = SetMax(concurrency_levels)
    /\ check' = [kind |-> "queries", vendor |-> "generic",
                 expected |-> FortuneRepetitions * SetMax(concurrency_levels)]
    /\ UNCHANGED <<vexec, overflow_checks, concurrency_levels, inserted>>
    /\ UNCHANGED <<rendered, mainVars, callVars, num_cpus, hpc, rep, requests_to_send,
                   transaction_successes, transaction_failures, wpc, issued,
                   db, incs, before_count, db_before, after_count>>

\* lines 68-76: verify_queries_count has returned, verify_rows_count is called
FortuneVerifyRows ==
    /\ vpc = "queries"
    /\ rpc = "returned"
    /\ check' = [kind |-> "rows", vendor |-> "generic",
                 expected |-> FortuneRowsPerQuery * (repetitions * concurrency)]
    /\ rpc' = "before"
    /\ vpc' = "rows"
    /\ UNCHANGED <<vexec, overflow_checks, concurrency_levels, response_body, verified,
                   inserted>>
    /\ UNCHANGED <<msgVars, rendered, mainVars, callVars, harnessVars, db, incs, before_count,
                   db_before, after_count>>

\* mutant: the dynamic sizing check, with its insert, is made whatever the
\* equivalence check found
FortuneVerifyTail_AlwaysInsert ==
    /\ vpc = "rows"
    /\ rpc = "returned"
    /\ inserted' = inserted + 1
    /\ \E response \in MoreFortuneResponses :
        LET run == verify_fortunes_are_dynamically_sized(Started(messages), response)
        IN  Land(IF run.how = "panicked" THEN run
                 ELSE [run EXCEPT !.m = Messages_body(@, response_body)])
    /\ rpc' = "idle"
    /\ UNCHANGED <<vexec, overflow_checks, concurrency_levels, response_body, verified>>
    /\ UNCHANGED <<rendered, mainVars, callVars, harnessVars, check, db, incs, before_count,
                   db_before, after_count>>

\* lines 77-85: the dynamic sizing check when verified, and the return
FortuneVerifyTail ==
    /\ vpc = "rows"
    /\ rpc = "returned"
    /\ IF verified
       THEN /\ inserted' = inserted + 1
            /\ \E response \in MoreFortuneResponses :
                LET run == verify_fortunes_are_dynamically_sized(Started(messages), response)
                IN  Land(IF run.how = "panicked" THEN run
                         ELSE [run EXCEPT !.m = Messages_body(@, response_body)])
       ELSE /\ Land(Ended(Started(Messages_body(messages, response_body)), "returned"))
            /\ UNCHANGED inserted
    /\ rpc' = "idle"
    /\ UNCHANGED <<vexec, overflow_checks, concurrency_levels, response_body, verified>>
    /\ UNCHANGED <<rendered, mainVars, callVars, harnessVars, check, db, incs, before_count,
                   db_before, after_count>>

NextVerify ==
    \/ PlaintextVerify
    \/ FortuneVerifyHead
    \/ HarnessNext
    \/ ReconNext
    \/ FortuneVerifyRows
    \/ FortuneVerifyTail

SpecVerify == InitVerify /\ [][NextVerify]_vars

(***************************************************************************)
(* SpecHeaders: verify_headers_internal called on its own on a fresh       *)
(* Messages, as the tests of test_type/mod.rs call it, for every sample    *)
(* header map, content type and should_retest.                             *)
(***************************************************************************)
ServerSpellings == {"Server", "server", "SERVER"}
DateSpellings == {"Date", "date", "DATE"}
ContentTypeSpellings == {"Content-Type", "content-type", "Content-type"}
SizeSpellings == {"Content-Length", "content-length", "CONTENT-LENGTH",
                  "Transfer-Encoding", "transfer-encoding"}

SampleDateValues == {"Thu, 05 Nov 2026 12:00:00 GMT", "2026-11-05 12:00:00"}
SampleContentTypeValues == {"text/plain", "application/json; charset=utf-8", "image/png"}

\* the maps with at most one entry under the given spellings and values
Entries(spellings, values) ==
    {NoHeaders} \cup {k :> v : k \in spellings, v \in values}

SampleCallHeaders ==
    {s @@ d @@ c @@ z :
        s \in Entries(ServerSpellings, {"tfb"}),
        d \in Entries(DateSpellings, SampleDateValues),
        c \in Entries(ContentTypeSpellings, SampleContentTypeValues),
        z \in Entries(SizeSpellings, {"13"})}

ContentTypes == {"Json", "Html", "Plaintext"}

CallStart ==
    /\ messages = Messages_default
    /\ stdout = <<>>
    /\ raised = <<>>
    /\ rendered = <<>>
    /\ MainIdle
    /\ VerifyIdle
    /\ cpc = "ready"
    /\ ret = <<>>
    /\ concurrency = 0
    /\ repetitions = 0
    /\ num_cpus = 1
    /\ hpc = "idle"
    /\ rep = 0
    /\ requests_to_send = 0
    /\ transaction_successes = 0
    /\ transaction_failures = 0
    /\ wpc = [w \in 1..num_cpus |-> "unspawned"]
    /\ issued = <<>>
    /\ rpc = "idle"
    /\ check = [kind |-> "queries", vendor |-> "generic", expected |-> 0]
    /\ db = Effect(0)
    /\ incs = {Effect(0)}
    /\ before_count = 0
    /\ db_before = Effect(0)
    /\ after_count = 0

InitHeaders ==
    /\ CallStart
    /\ call \in [fn : {"verify_headers_internal"}, headers : SampleCallHeaders,
                 should_be : ContentTypes, should_retest : BOOLEAN]

\* verify_headers_internal(&map, url, should_be, should_retest, &mut messages)
HeadersCall ==
    /\ cpc = "ready"
    /\ call.fn = "verify_headers_internal"
    /\ \E refetch \in (IF call.should_retest THEN RefetchResults(Fetched(call.headers))
                       ELSE {FailedHeaders}) :
        RaiseAll(verify_headers_internal(call.headers, "url", call.should_be,
                                         call.should_retest, refetch))
    /\ cpc' = "returned"
    /\ UNCHANGED <<call, ret, rendered, mainVars, verifyVars, harnessVars, reconVars>>

NextHeaders == HeadersCall

SpecHeaders == InitHeaders /\ [][NextHeaders]_vars

(***************************************************************************)
(* Query (test_type/query/mod.rs): translate_query_count.                  *)
(***************************************************************************)
Digits == <<"0", "1", "2", "3", "4", "5", "6", "7", "8", "9">>

IsDigit(c) == \E i \in 1..10 : Digits[i] = c

DigitValue(c) == (CHOOSE i \in 1..10 : Digits[i] = c) - 1

\* the digits of an i32 accumulated as i32::from_str does, towards the sign:
\* None as soon as a character is no digit or the value leaves the i32 range
RECURSIVE i32_digits(_, _, _)
i32_digits(str, acc, negative) ==
    IF str = <<>> THEN Some(acc)
    ELSE IF ~IsDigit(Head(str)) THEN None
    ELSE LET d == DigitValue(Head(str))
         IN  IF negative
             THEN IF acc < -214748364 \/ (acc = -214748364 /\ d > 8) THEN None
                  ELSE i32_digits(Tail(str), acc * 10 - d, negative)
             ELSE IF acc > 214748364 \/ (acc = 214748364 /\ d > 7) THEN None
                  ELSE i32_digits(Tail(str), acc * 10 + d, negative)

\* i32::from_str: an optional sign and at least one digit
i32_from_str(str) ==
    IF str = <<>> THEN None
    ELSE IF Head(str) \in {"+", "-"}
    THEN IF Tail(str) = <<>> THEN None
         ELSE i32_digits(Tail(str), 0, Head(str) = "-")
    ELSE i32_digits(str, 0, FALSE)

\* mutant: a count above max is returned as it is
translate_query_count_NoUpperClamp(query_string, min, max) ==
    LET parsed == i32_from_str(query_string)
    IN  IF parsed # None
        THEN IF parsed[1] < min THEN min ELSE parsed[1]
        ELSE min

translate_query_count(query_string, min, max) ==
    LET parsed == i32_from_str(query_string)
    IN  IF parsed # None
        THEN LET queries == parsed[1]
             IN  IF queries > max THEN max
                 ELSE IF queries < min THEN min
                 ELSE queries
        ELSE min

(***************************************************************************)
(* JSON (serde_json).  A value is a tagged record: an integer, a string    *)
(* (its characters), null, an array (a sequence of values) or an object (a *)
(* sequence of <<key, value>> with distinct keys in the order the Map      *)
(* iterates them; keys are sequences of characters).                       *)
(***************************************************************************)
JInt(n) == [t |-> "int", n |-> n]

JStr(str) == [t |-> "str", s |-> str]

JNull == [t |-> "null"]

JArr(list) == [t |-> "arr", l |-> list]

JObj(entries) == [t |-> "obj", m |-> entries]

as_i64(value) == IF value.t = "int" THEN Some(value.n) ELSE None

as_str(value) == IF value.t = "str" THEN Some(value.s) ELSE None

as_array(value) == IF value.t = "arr" THEN Some(value.l) ELSE None

as_object(value) == IF value.t = "obj" THEN Some(value.m) ELSE None

is_null(value) == value.t = "null"

\* map[key] of a Map that holds key
Map_index(entries, key) ==
    entries[CHOOSE i \in 1..Len(entries) : entries[i][1] = key][2]

\* value[key]: Null when value is no object or has no such key
Value_index(value, key) ==
    IF value.t = "obj" /\ \E i \in 1..Len(value.m) : value.m[i][1] = key
    THEN Map_index(value.m, key)
    ELSE JNull

\* the decimal digits of a natural number
RECURSIVE NatText(_)
NatText(n) ==
    IF n < 10 THEN <<Digits[n + 1]>>
    ELSE NatText(n \div 10) \o <<Digits[(n % 10) + 1]>>

IntText(n) == IF n < 0 THEN <<"-">> \o NatText(0 - n) ELSE NatText(n)

Quoted(str) == <<"\"">> \o str \o <<"\"">>

\* Value::to_string: the compact text of a value
RECURSIVE to_string(_)
RECURSIVE ListText(_)
RECURSIVE EntriesText(_)
ListText(list) ==
    IF list = <<>> THEN <<>>
    ELSE to_string(Head(list))
         \o (IF Tail(list) = <<>> THEN <<>> ELSE <<",">> \o ListText(Tail(list)))

EntriesText(entries) ==
    IF entries = <<>> THEN <<>>
    ELSE Quoted(Head(entries)[1]) \o <<":">> \o to_string(Head(entries)[2])
         \o (IF Tail(entries) = <<>> THEN <<>> ELSE <<",">> \o EntriesText(Tail(entries)))

to_string(value) ==
    CASE value.t = "int" -> IntText(value.n)
      [] value.t = "str" -> Quoted(value.s)
      [] value.t = "null" -> <<"n", "u", "l", "l">>
      [] value.t = "arr" -> <<"[">> \o ListText(value.l) \o <<"]">>
      [] value.t = "obj" -> <<"{">> \o EntriesText(value.m) \o <<"}">>

\* i64::from_str: an optional sign and at least one digit (the numerals of
\* the samples stay far inside the i64 range)
RECURSIVE i64_digits(_, _)
i64_digits(str, acc) ==
    IF str = <<>> THEN Some(acc)
    ELSE IF ~IsDigit(Head(str)) THEN None
    ELSE i64_digits(Tail(str), acc * 10 + DigitValue(Head(str)))

i64_from_str(str) ==
    IF str = <<>> THEN None
    ELSE IF Head(str) \in {"+", "-"}
    THEN IF Tail(str) = <<>> THEN None
         ELSE LET magnitude == i64_digits(Tail(str), 0)
              IN  IF magnitude = None THEN None
                  ELSE IF Head(str) = "-" THEN Some(0 - magnitude[1])
                  ELSE magnitude
    ELSE i64_digits(str, 0)

IdKey == <<"i", "d">>

RandomNumberKey == <<"r", "a", "n", "d", "o", "m", "n", "u", "m", "b", "e", "r">>

\* the loop over json.keys() of verify_random_number_object
RECURSIVE ScanKeys(_, _)
ScanKeys(entries, st) ==
    IF entries = <<>> THEN st
    ELSE LET key == Head(entries)[1]
             counted == [st EXCEPT !.keys = @ + 1]
         IN  ScanKeys(Tail(entries),
                 IF to_lowercase(key) = IdKey
                 THEN [counted EXCEPT !.id_found = TRUE, !.id_key = key]
                 ELSE IF to_lowercase(key) = RandomNumberKey
                 THEN [counted EXCEPT !.random_number_found = TRUE,
                                      !.random_number_key = key]
                 ELSE [counted EXCEPT !.unknown_keys =
                           @ \o to_lowercase(key) \o <<",", " ">>])

\* String::pop twice
PopTwice(str) == SubSeq(str, 1, Len(str) - 2)

\* verify_random_number_object: the findings raised for one object (the
\* backquotes around randomNumber in the last warning are written as quotes)
verify_random_number_object(json) ==
    LET st == ScanKeys(json, [id_found |-> FALSE, id_key |-> IdKey,
                              random_number_found |-> FALSE,
                              random_number_key |-> RandomNumberKey,
                              keys |-> 0, unknown_keys |-> <<>>])
    IN  IF ~st.id_found
        THEN <<  <<"error", Msg("Response object was missing required key: id", <<>>, <<>>),
                   "Missing Key">>  >>
        ELSE IF ~st.random_number_found
        THEN <<  <<"error",
                   Msg("Response object was missing required key: randomnumber", <<>>, <<>>),
                   "Missing Key">>  >>
        ELSE
          LET id_value == Map_index(json, st.id_key)
              rn_value == Map_index(json, st.random_number_key)
              id_str == as_str(id_value)
              parsed_id == IF id_str # None THEN i64_from_str(id_str[1]) ELSE None
              tmp_id == IF parsed_id # None THEN parsed_id ELSE as_i64(id_value)
              id == IF tmp_id = None THEN 0 ELSE tmp_id[1]
              random_number == as_i64(rn_value)
          IN  (IF st.keys > 2
               THEN IF st.keys = 3
                    THEN <<  <<"warning",
                               Msg("An extra key is being included with the db object: {}",
                                   <<>>, PopTwice(st.unknown_keys)),
                               "Extra Key">>  >>
                    ELSE <<  <<"warning",
                               Msg("Extra keys are being included with the db object: {}",
                                   <<>>, PopTwice(st.unknown_keys)),
                               "Extra Keys">>  >>
               ELSE <<>>)
              \o (IF parsed_id # None
                  THEN <<  <<"warning",
                             Msg("Response key 'id' is int-string; should be int: {}. This may negatively affect performance by sending extra bytes.",
                                 <<>>, id_str[1]),
                             "Extra Bytes">>  >>
                  ELSE <<>>)
              \o (IF tmp_id = None
                  THEN <<  <<"error",
                             Msg("Response key 'id' does not map to an integer: {}",
                                 <<>>, to_string(id_value)),
                             "Invalid Value">>  >>
                  ELSE <<>>)
              \o (IF id > 10000
                  THEN <<  <<"warning",
                             Msg("Response key 'id' should be between 1 and 10,000: {}",
                                 <<id>>, <<>>),
                             "Value Out of Range">>  >>
                  ELSE <<>>)
              \o (IF random_number # None
                  THEN (IF random_number[1] < 1
                       THEN <<  <<"error",
                                  Msg("Response key 'randomnumber' must be greater than zero: {}",
                                      <<random_number[1]>>, <<>>),
                                  "Invalid Value">>  >>
                       ELSE IF random_number[1] > 10000
                       THEN <<  <<"warning",
                                  Msg("Response key 'randomNumber' is over 10,000. This may negatively affect performance by sending extra bytes.",
                                      <<>>, <<>>),
                                  "Value Out of Range">>  >>
                       ELSE <<>>)
                  ELSE <<  <<"error",
                             Msg("Response key 'randomnumber' does not map to an integer: {}",
                                 <<>>, to_string(rn_value)),
                             "Invalid Value">>  >>)

(***************************************************************************)
(* SpecObject: verify_random_number_object on every sample object.         *)
(***************************************************************************)
SampleNumberValues ==
    {JInt(-1), JInt(0), JInt(1), JInt(10000), JInt(10001),
     JStr(<<"1", "2", "3">>), JStr(<<"1", "0", "0", "0", "1">>), JStr(<<"a", "b", "c">>), JNull}

SampleIdEntries == {<<>>} \cup {<< <<IdKey, v>> >> : v \in SampleNumberValues}

SampleRandomNumberEntries ==
    {<<>>} \cup {<< <<k, v>> >> : k \in {RandomNumberKey, <<"r", "a", "n", "d", "o", "m", "N", "u", "m", "b", "e", "r">>},
                                 v \in SampleNumberValues}

SampleExtraEntries ==
    {<<>>, << <<<<"f", "o", "o">>, JInt(1)>> >>,
     << <<<<"b", "a", "r">>, JNull>>, <<<<"f", "o", "o">>, JInt(1)>> >>}

SampleObjects ==
    {x \o i \o r : x \in SampleExtraEntries, i \in SampleIdEntries,
                   r \in SampleRandomNumberEntries}

InitObject ==
    /\ CallStart
    /\ call \in [fn : {"verify_random_number_object"}, json : SampleObjects]

ObjectCall ==
    /\ cpc = "ready"
    /\ call.fn = "verify_random_number_object"
    /\ RaiseAll(verify_random_number_object(call.json))
    /\ cpc' = "returned"
    /\ UNCHANGED <<call, ret, rendered, mainVars, verifyVars, harnessVars, reconVars>>

NextObject == ObjectCall

SpecObject == InitObject /\ [][NextObject]_vars

(***************************************************************************)
(* Sample documents and serde_json::from_str.  A body is the compact text  *)
(* of a sample document, or that text cut short; from_str maps a text to   *)
(* the document it is the text of, and fails on every other text.          *)
(***************************************************************************)
MaxArrayLen == 2

MaxExpectedCount == 2

GoodObject == JObj(<< <<IdKey, JInt(1)>>, <<<<"r", "a", "n", "d", "o", "m", "N", "u", "m", "b", "e", "r">>, JInt(2)>> >>)

SampleElements ==
    {GoodObject,
     JObj(<< <<IdKey, JInt(1)>> >>),
     JObj(<< <<IdKey, JInt(10001)>>, <<<<"r", "a", "n", "d", "o", "m", "N", "u", "m", "b", "e", "r">>, JInt(5)>> >>),
     JInt(7)}

SampleArrays ==
    {JArr(l) : l \in UNION {[1..n -> SampleElements] : n \in 0..MaxArrayLen}}

SampleLengthDocuments ==
    SampleArrays \cup (SampleElements \ {JInt(7)}) \cup {JInt(7), JNull}

HelloWorld == <<"h", "e", "l", "l", "o", ",", " ", "w", "o", "r", "l", "d", "!">>

SampleMessageValues ==
    {JStr(<<"H", "e", "l", "l", "o", ",", " ", "W", "o", "r", "l", "d", "!">>), JStr(HelloWorld), JStr(<<"H", "E", "L", "L", "O", ",", " ", "W", "O", "R", "L", "D", "!">>), JStr(<<"H", "e", "l", "l", "o", ",", " ", "M", "o", "t", "o", "!">>),
     JInt(7), JNull, JObj(<<>>), JArr(<<>>)}

MessageKey == <<"m", "e", "s", "s", "a", "g", "e">>

SampleJsonDocuments ==
    {JObj(<< <<MessageKey, v>> >>) : v \in SampleMessageValues}
    \cup {JObj(<< <<<<"e", "x", "t", "r", "a">>, JInt(1)>>, <<MessageKey, v>> >>) : v \in SampleMessageValues}
    \cup {JObj(<< <<MessageKey, v>>, <<<<"n", "e", "w", "_", "k", "e", "y">>, JStr(<<"x">>)>> >>) :
             v \in SampleMessageValues}
    \cup {JObj(<< <<<<"M", "e", "s", "s", "a", "g", "e">>, JStr(<<"H", "e", "l", "l", "o", ",", " ", "W", "o", "r", "l", "d", "!">>)>> >>),
          JObj(<< <<<<"n", "o", "t", "_", "m", "e", "s", "s", "a", "g", "e">>, JStr(<<"H", "e", "l", "l", "o", ",", " ", "W", "o", "r", "l", "d", "!">>)>> >>),
          JObj(<<>>), JArr(<<JInt(1)>>), JInt(7), JStr(HelloWorld), JNull}

\* the document a text turns into when every letter of it is lower-cased
RECURSIVE LoweredValue(_)
LoweredValue(value) ==
    CASE value.t = "str" -> JStr(to_lowercase(value.s))
      [] value.t = "arr" -> JArr([i \in 1..Len(value.l) |-> LoweredValue(value.l[i])])
      [] value.t = "obj" ->
            JObj([i \in 1..Len(value.m) |->
                    <<to_lowercase(value.m[i][1]), LoweredValue(value.m[i][2])>>])
      [] OTHER -> value

JsonDocuments ==
    {LoweredValue(d) : d \in SampleLengthDocuments \cup SampleJsonDocuments}

\* serde_json::from_str::<Value>: Ok(value) as <<value>>, Err as <<>>
serde_json_from_str(text) ==
    LET hits == {d \in JsonDocuments : to_string(d) = text}
    IN  IF hits = {} THEN None ELSE Some(CHOOSE d \in hits : TRUE)

\* the body a sample document is sent as: its text, or its text without the
\* last character
BodyOf(doc, truncated) ==
    LET text == to_string(doc)
    IN  IF truncated THEN SubSeq(text, 1, Len(text) - 1) ELSE text

Truncations(doc) == IF doc.t \in {"arr", "obj", "str"} THEN BOOLEAN ELSE {FALSE}

\* the loop over the array of verify_with_length: the findings of the
\* objects up to the first one after which messages holds a finding
RECURSIVE WalkList(_, _, _)
WalkList(list, m, fs) ==
    IF list = <<>> THEN fs
    ELSE IF as_object(Head(list)) = None THEN WalkList(Tail(list), m, fs)
    ELSE LET fs2 == fs \o verify_random_number_object(as_object(Head(list))[1])
             m2 == ApplyFindings(m, fs2)
         IN  IF m2.warnings # <<>> \/ m2.errors # <<>> THEN fs2
             ELSE WalkList(Tail(list), m, fs2)

\* list.len() != expected_count as usize
LengthDiffers(len, expected_count) ==
    IF expected_count < 0 THEN TRUE ELSE len # expected_count

\* mutant: the length is compared only when the objects raised nothing
verify_with_length_LengthAfterCleanWalk(m, response_body_, expected_count) ==
    LET parsed == serde_json_from_str(to_lowercase(response_body_))
    IN  IF parsed = None
        THEN <<  <<"error", Msg("Invalid JSON: {:?}", <<>>, <<>>), "Invalid JSON">>  >>
        ELSE IF as_array(parsed[1]) # None
        THEN LET list == as_array(parsed[1])[1]
                 walked == WalkList(list, m, <<>>)
             IN  walked
                 \o (IF walked = <<>> /\ LengthDiffers(Len(list), expected_count)
                     THEN <<  <<"error",
                                Msg("JSON array length of {} != expected length of {}",
                                    <<Len(list), expected_count>>, <<>>),
                                "Incorrect Length">>  >>
                     ELSE <<>>)
        ELSE IF as_object(parsed[1]) # None
        THEN <<  <<"warning", Msg("Top-level JSON is an object, not an array", <<>>, <<>>),
                   "Invalid JSON">>  >>
             \o verify_random_number_object(as_object(parsed[1])[1])
        ELSE <<>>

\* verify_with_length: the findings raised on messages m
verify_with_length(m, response_body_, expected_count) ==
    LET parsed == serde_json_from_str(to_lowercase(response_body_))
    IN  IF parsed = None
        THEN <<  <<"error", Msg("Invalid JSON: {:?}", <<>>, <<>>), "Invalid JSON">>  >>
        ELSE IF as_array(parsed[1]) # None
        THEN LET list == as_array(parsed[1])[1]
             IN  WalkList(list, m, <<>>)
                 \o (IF LengthDiffers(Len(list), expected_count)
                     THEN <<  <<"error",
                                Msg("JSON array length of {} != expected length of {}",
                                    <<Len(list), expected_count>>, <<>>),
                                "Incorrect Length">>  >>
                     ELSE <<>>)
        ELSE IF as_object(parsed[1]) # None
        THEN <<  <<"warning", Msg("Top-level JSON is an object, not an array", <<>>, <<>>),
                   "Invalid JSON">>  >>
             \o verify_random_number_object(as_object(parsed[1])[1])
        ELSE <<>>

(***************************************************************************)
(* SpecLength: verify_with_length on every sample body and expected count, *)
(* on fresh messages or after the header checks of a response without      *)
(* headers have raised their errors.                                       *)
(***************************************************************************)
InitLength ==
    /\ CallStart
    /\ \E doc \in SampleLengthDocuments, n \in 0..MaxExpectedCount :
        \E truncated \in Truncations(doc) :
            call = [fn |-> "verify_with_length", doc |-> doc, truncated |-> truncated,
                    response_body |-> BodyOf(doc, truncated), expected_count |-> n]

LengthHeaders ==
    /\ cpc = "ready"
    /\ call.fn = "verify_with_length"
    /\ stdout = <<>>
    /\ RaiseAll(verify_headers_internal(NoHeaders, "url", "Json", FALSE, FailedHeaders))
    /\ UNCHANGED <<callVars, rendered, mainVars, verifyVars, harnessVars, reconVars>>

LengthCall ==
    /\ cpc = "ready"
    /\ call.fn = "verify_with_length"
    /\ RaiseAll(verify_with_length(messages, call.response_body, call.expected_count))
    /\ cpc' = "returned"
    /\ UNCHANGED <<call, ret, rendered, mainVars, verifyVars, harnessVars, reconVars>>

NextLength == LengthHeaders \/ LengthCall

SpecLength == InitLength /\ [][NextLength]_vars

(***************************************************************************)
(* Json (test_type/json.rs): verify_json.                                  *)
(***************************************************************************)
JsonMinimalLen == 27

\* the warnings of the loop over the entries of the top-level object
RECURSIVE TooManyPairs(_)
TooManyPairs(entries) ==
    IF entries = <<>> THEN <<>>
    ELSE (IF Head(entries)[1] # MessageKey
          THEN <<  <<"warning",
                     Msg("Too many JSON key/value pairs, consider removing: {}",
                         <<>>, Head(entries)[1]),
                     "Too many JSON key/value pairs">>  >>
          ELSE <<>>)
         \o TooManyPairs(Tail(entries))

\* mutant: a message that is no string is let through
verify_json_StringsOnly(response_body_) ==
    LET parsed == serde_json_from_str(to_lowercase(response_body_))
    IN  (IF Len(response_body_) > JsonMinimalLen
         THEN <<  <<"warning",
                    Msg("{} additional response byte(s) found. Consider removing unnecessary whitespace.",
                        <<Len(response_body_) - JsonMinimalLen>>, <<>>),
                    "Additional response byte(s)">>  >>
         ELSE <<>>)
        \o (IF parsed = None
            THEN <<  <<"error", Msg("Invalid JSON: {:?}", <<>>, <<>>), "Invalid JSON">>  >>
            ELSE LET json_object == parsed[1]
                     message == Value_index(json_object, MessageKey)
                 IN  IF is_null(message)
                     THEN <<  <<"error", Msg("Missing required key 'message'", <<>>, <<>>),
                                "Missing key 'message'">>  >>
                     ELSE (IF as_object(json_object) # None
                           THEN TooManyPairs(as_object(json_object)[1])
                           ELSE <<>>)
                          \o (IF as_str(message) # None /\ as_str(message)[1] # HelloWorld
                              THEN <<  <<"error",
                                         Msg("Expected message of 'hello, world!', got '{}'",
                                             <<>>, as_str(message)[1]),
                                         "Invalid response body">>  >>
                              ELSE <<>>))

\* verify_json: the findings raised for a body of one-byte characters
verify_json(response_body_) ==
    LET parsed == serde_json_from_str(to_lowercase(response_body_))
    IN  (IF Len(response_body_) > JsonMinimalLen
         THEN <<  <<"warning",
                    Msg("{} additional response byte(s) found. Consider removing unnecessary whitespace.",
                        <<Len(response_body_) - JsonMinimalLen>>, <<>>),
                    "Additional response byte(s)">>  >>
         ELSE <<>>)
        \o (IF parsed = None
            THEN <<  <<"error", Msg("Invalid JSON: {:?}", <<>>, <<>>), "Invalid JSON">>  >>
            ELSE LET json_object == parsed[1]
                     message == Value_index(json_object, MessageKey)
                 IN  IF is_null(message)
                     THEN <<  <<"error", Msg("Missing required key 'message'", <<>>, <<>>),
                                "Missing key 'message'">>  >>
                     ELSE (IF as_object(json_object) # None
                           THEN TooManyPairs(as_object(json_object)[1])
                           ELSE <<>>)
                          \o (IF as_str(message) # None
                              THEN IF as_str(message)[1] # HelloWorld
                                   THEN <<  <<"error",
                                              Msg("Expected message of 'hello, world!', got '{}'",
                                                  <<>>, as_str(message)[1]),
                                              "Invalid response body">>  >>
                                   ELSE <<>>
                              ELSE <<  <<"error",
                                         Msg("Expected message of 'hello, world!', got '{}'",
                                             <<>>, to_string(message)),
                                         "Invalid response body">>  >>))

(***************************************************************************)
(* SpecJson: verify_json on every sample body.                             *)
(***************************************************************************)
InitJson ==
    /\ CallStart
    /\ \E doc \in SampleJsonDocuments :
        \E truncated \in Truncations(doc) :
            call = [fn |-> "verify_json", doc |-> doc, truncated |-> truncated,
                    response_body |-> BodyOf(doc, truncated)]

JsonCall ==
    /\ cpc = "ready"
    /\ call.fn = "verify_json"
    /\ RaiseAll(verify_json(call.response_body))
    /\ cpc' = "returned"
    /\ UNCHANGED <<call, ret, rendered, mainVars, verifyVars, harnessVars, reconVars>>

NextJson == JsonCall

SpecJson == InitJson /\ [][NextJson]_vars

(***************************************************************************)
(* SpecQueryCount: translate_query_count on every sample string and pair   *)
(* of bounds.                                                              *)
(***************************************************************************)
SampleQueryStrings ==
    {<<"2">>,
     <<"0">>,
     <<"f", "o", "o">>,
     <<"5", "0", "1">>,
     <<>>,
     <<"-", "3">>,
     <<"+", "7">>,
     <<"5", "0", "0">>,
     <<"1">>,
     <<"4", "9", "9">>,
     <<"0", "0", "0", "1", "2">>,
     <<"-", "0">>,
     <<"1", "0", "0", "0">>,
     <<"1", "2", "a", "b", "c">>,
     <<"2", ".", "5">>,
     <<" ", "2">>,
     <<"2", "1", "4", "7", "4", "8", "3", "6", "4", "7">>,
     <<"2", "1", "4", "7", "4", "8", "3", "6", "4", "8">>,
     <<"-", "2", "1", "4", "7", "4", "8", "3", "6", "4", "8">>,
     <<"-", "2", "1", "4", "7", "4", "8", "3", "6", "4", "9">>,
     <<"+">>,
     <<"-">>}

SampleMinMax == {<<1, 500>>, <<0, 2>>, <<-5, -1>>, <<3, 3>>}

InitQueryCount ==
    /\ CallStart
    /\ \E s \in SampleQueryStrings, b \in SampleMinMax :
        call = [fn |-> "translate_query_count", query_string |-> s,
                min |-> b[1], max |-> b[2]]

TranslateCall ==
    /\ cpc = "ready"
    /\ call.fn = "translate_query_count"
    /\ ret' = <<translate_query_count(call.query_string, call.min, call.max)>>
    /\ cpc' = "returned"
    /\ UNCHANGED <<call, msgVars, rendered, mainVars, verifyVars, harnessVars, reconVars>>

NextQueryCount == TranslateCall

SpecQueryCount == InitQueryCount /\ [][NextQueryCount]_vars

(***************************************************************************)
(* SpecPlaintext: verify_plaintext on every sample body, in a build with   *)
(* and in a build without overflow checks.                                 *)
(***************************************************************************)
HelloWorldBody == <<"H", "e", "l", "l", "o", ",", " ", "W", "o", "r", "l", "d", "!">>

SamplePlaintextBodies ==
    {SubSeq(HelloWorldBody, 1, n) : n \in 0..Len(HelloWorldBody)}
    \cup {HelloWorldBody \o suffix : suffix \in {<<"\n">>, <<"!", "!">>, <<"a", "b", "c">>}}
    \cup {prefix \o HelloWorldBody : prefix \in {<<" ">>, <<"a", "b", "c">>}}
    \cup {<<"H", "E", "L", "L", "O", ",", " ", "W", "O", "R", "L", "D", "!">>, HelloWorld, <<"W", "o", "r", "l", "d", ",", " ", "H", "e", "l", "l", "o", "!">>, <<"G", "o", "o", "d", "b", "y", "e", ",", " ", "W", "o", "r", "l", "d">>, <<"G", "o", "o", "d", "b", "y", "e", ",", " ", "c", "r", "u", "e", "l", " ", "W", "o", "r", "l", "d", "!">>,
          <<"H", "e", "l", "l", "o", ",", " ", "M", "o", "t", "o", "!">>, <<"h", "i">>}

InitPlaintext ==
    /\ CallStart
    /\ call \in [fn : {"verify_plaintext"}, response_body : SamplePlaintextBodies,
                 overflow_checks : BOOLEAN]

PlaintextCall ==
    /\ cpc = "ready"
    /\ call.fn = "verify_plaintext"
    /\ LET checked == verify_plaintext(call.response_body, call.overflow_checks)
       IN  IF checked.panic
           THEN cpc' = "panicked" /\ UNCHANGED msgVars
           ELSE cpc' = "returned" /\ RaiseAll(checked.findings)
    /\ UNCHANGED <<call, ret, rendered, mainVars, verifyVars, harnessVars, reconVars>>

NextPlaintext == PlaintextCall

SpecPlaintext == InitPlaintext /\ [][NextPlaintext]_vars

(***************************************************************************)
(* SpecRetest: verify_headers_internal with the second request as a step   *)
(* of its own, for every first and second Date header.                     *)
(***************************************************************************)
RetestDateValues ==
    {"Thu, 05 Nov 2026 12:00:00 GMT", "Thu, 05 Nov 2026 13:00:00 +0100",
     "Thu, 05 Nov 2026 12:00:03 GMT", "2026-11-05 12:00:00"}

RetestOtherHeaders ==
    ("Server" :> "tfb") @@ ("Content-Type" :> "text/plain") @@ ("Content-Length" :> "13")

RetestHeaders == {d @@ RetestOtherHeaders : d \in Entries(DateSpellings, RetestDateValues)}

\* lines 179-186: the second request is made for a first Date that parses
RefetchNeeded(headers, should_retest) ==
    LET date_str == IF HashMap_get(headers, "Date") # None
                    THEN HashMap_get(headers, "Date")
                    ELSE HashMap_get(headers, "date")
    IN  date_str # None /\ parse_from_rfc2822(date_str[1]) # None /\ should_retest

InitRetest ==
    /\ CallStart
    /\ call \in [fn : {"verify_headers_retest"}, headers : RetestHeaders,
                 should_retest : BOOLEAN,
                 second : {FailedHeaders} \cup {Fetched(h) : h \in RetestHeaders}]

\* the call up to sleep(Duration::from_secs(3)), or to its end when no
\* second request is made
RetestCall ==
    /\ cpc = "ready"
    /\ call.fn = "verify_headers_retest"
    /\ IF RefetchNeeded(call.headers, call.should_retest)
       THEN cpc' = "refetch" /\ UNCHANGED msgVars
       ELSE /\ cpc' = "returned"
            /\ RaiseAll(verify_headers_internal(call.headers, "url", "Plaintext",
                                                call.should_retest, FailedHeaders))
    /\ UNCHANGED <<call, ret, rendered, mainVars, verifyVars, harnessVars, reconVars>>

\* get_response_headers(url, messages) of line 186 and the rest of the call
RetestRefetch ==
    /\ cpc = "refetch"
    /\ ret' = Append(ret, call.second)
    /\ RaiseAll(verify_headers_internal(call.headers, "url", "Plaintext",
                                        call.should_retest, call.second))
    /\ cpc' = "returned"
    /\ UNCHANGED <<call, rendered, mainVars, verifyVars, harnessVars, reconVars>>

NextRetest == RetestCall \/ RetestRefetch

SpecRetest == InitRetest /\ [][NextRetest]_vars

(***************************************************************************)
(* SpecMultiQuery: MultiQuery::verify (test_type/query/multi_query.rs)     *)
(* with its two reconciliations.  ret is the list of the calls verify has  *)
(* made, call holds the position of its loop over the test cases.          *)
(***************************************************************************)
MultiQueryTestCases == <<<<"2">>, <<"0">>, <<"f", "o", "o">>, <<"5", "0", "1">>, <<>>  >>

MultiQueryMin == 1

MultiQueryMax == 500

MultiQueryRepetitions == 2

MultiQueryPerRequest == 20

Called(ev, case, ok) == [ev |-> ev, case |-> case, ok |-> ok]

\* the answers to the request of a test case: a status other than 200, or
\* an array of two objects
MultiQueryBodyResults ==
    {[kind |-> "Non200Response", body |-> <<>>, code |-> 500],
     OkBody(to_string(JArr(<<GoodObject, GoodObject>>)))}

\* the answers to the sentinel request, and to the request verify_headers
\* repeats after a Date that parses
MultiQueryHeaderResults == {FailedHeaders, Fetched(LaterHeaders)}

MultiQueryRefetchResults(first) == RefetchResults(first) \cap {FailedHeaders, Fetched(LaterHeaders)}

InitMultiQuery ==
    /\ messages = Messages_default
    /\ stdout = <<>>
    /\ raised = <<>>
    /\ rendered = <<>>
    /\ MainIdle
    /\ call = [fn |-> "MultiQuery::verify", case |-> 1]
    /\ cpc = "idle"
    /\ ret = <<>>
    /\ vpc = "start"
    /\ vexec = "MultiQuery"
    /\ overflow_checks = FALSE
    /\ concurrency_levels \in {1..n : n \in 1..MaxLevel}
    /\ response_body = <<>>
    /\ verified = FALSE
    /\ inserted = 0
    /\ concurrency = 0
    /\ repetitions = 0
    /\ num_cpus \in 1..VerifyMaxCpus
    /\ hpc = "idle"
    /\ rep = 0
    /\ requests_to_send = 0
    /\ transaction_successes = 0
    /\ transaction_failures = 0
    /\ wpc = [w \in 1..num_cpus |-> "unspawned"]
    /\ issued = <<>>
    /\ rpc = "idle"
    /\ check = [kind |-> "queries", vendor |-> "generic", expected |-> 0]
    /\ db = Effect(0)
    /\ incs = {Effect(MultiQueryPerRequest)}
    /\ before_count = 0
    /\ db_before = Effect(0)
    /\ after_count = 0

\* lines 49-62: the sentinel request for the headers and their validation
MultiQueryHead ==
    /\ vpc = "start"
    /\ vexec = "MultiQuery"
    /\ \E first \in MultiQueryHeaderResults :
        \E order \in Orders(first.headers), refetch \in MultiQueryRefetchResults(first) :
            LET s1 == Raise(Started(Messages_new("url")),
                            get_response_headers_findings("url", first))
                s2 == [s1 EXCEPT !.m = Messages_headers(@, order)]
                s3 == Raise(s2, verify_headers(first.headers, "url", "Json", refetch))
            IN  IF ~first.ok
                THEN /\ Land(Ended(s1, "returned"))
                     /\ ret' = <<Called("get_response_headers", 0, FALSE)>>
                ELSE /\ Land(Ended(s3, "case"))
                     /\ ret' = <<Called("get_response_headers", 0, TRUE),
                                 Called("verify_headers", 0, TRUE)>>
    /\ repetitions' = MultiQueryRepetitions
    /\ concurrency' = SetMax(concurrency_levels)
    /\ UNCHANGED <<vexec, overflow_checks, concurrency_levels, response_body, verified,
                   inserted>>
    /\ UNCHANGED <<rendered, mainVars, call, cpc, num_cpus, hpc, rep, requests_to_send,
                   transaction_successes, transaction_failures, wpc, issued, reconVars>>

\* the loop goes on to the next test case, or verify returns Ok(messages)
MultiQueryAdvance ==
    IF call.case = Len(MultiQueryTestCases)
    THEN [vpc |-> "returned", call |-> call]
    ELSE [vpc |-> "case", call |-> [call EXCEPT !.case = @ + 1]]

\* mutant: the reconciliation is made for every test case whose body came
MultiQueryCase_AlwaysReconcile ==
    /\ vpc = "case"
    /\ vexec = "MultiQuery"
    /\ \E fetched \in MultiQueryBodyResults :
        LET test_case == MultiQueryTestCases[call.case]
            expected_length == translate_query_count(test_case, MultiQueryMin, MultiQueryMax)
            s1 == Raise(Started(messages),
                        get_response_body_findings(<<"url", test_case>>, fetched))
            s2 == [s1 EXCEPT !.m = Messages_body(@, fetched.body)]
            s3 == Raise(s2, verify_with_length(s2.m, fetched.body, expected_length))
        IN  IF fetched.kind # "ok"
            THEN /\ Land(Ended(s1, MultiQueryAdvance.vpc))
                 /\ call' = MultiQueryAdvance.call
                 /\ ret' = Append(ret, Called("get_response_body", call.case, FALSE))
                 /\ UNCHANGED <<response_body, rpc, check>>
            ELSE /\ Land(Ended(s3, "queries"))
                 /\ ret' = ret \o <<Called("get_response_body", call.case, TRUE),
                                    Called("verify_queries_count", call.case, TRUE)>>
                 /\ response_body' = fetched.body
                 /\ rpc' = "before"
                 /\ check' = [kind |-> "queries", vendor |-> "generic",
                              expected |-> MultiQueryPerRequest * repetitions * concurrency]
                 /\ UNCHANGED call
    /\ UNCHANGED <<vexec, overflow_checks, concurrency_levels, verified, inserted>>
    /\ UNCHANGED <<rendered, mainVars, cpc, harnessVars, db, incs, before_count, db_before,
                   after_count>>

\* lines 68-88: one test case, up to the call of verify_queries_count when
\* its expected length is the maximum
MultiQueryCase ==
    /\ vpc = "case"
    /\ vexec = "MultiQuery"
    /\ \E fetched \in MultiQueryBodyResults :
        LET test_case == MultiQueryTestCases[call.case]
            expected_length == translate_query_count(test_case, MultiQueryMin, MultiQueryMax)
            s1 == Raise(Started(messages),
                        get_response_body_findings(<<"url", test_case>>, fetched))
            s2 == [s1 EXCEPT !.m = Messages_body(@, fetched.body)]
            s3 == Raise(s2, verify_with_length(s2.m, fetched.body, expected_length))
        IN  IF fetched.kind # "ok"
            THEN /\ Land(Ended(s1, MultiQueryAdvance.vpc))
                 /\ call' = MultiQueryAdvance.call
                 /\ ret' = Append(ret, Called("get_response_body", call.case, FALSE))
                 /\ UNCHANGED <<response_body, rpc, check>>
            ELSE IF expected_length = MultiQueryMax
            THEN /\ Land(Ended(s3, "queries"))
                 /\ ret' = ret \o <<Called("get_response_body", call.case, TRUE),
                                    Called("verify_queries_count", call.case, TRUE)>>
                 /\ response_body' = fetched.body
                 /\ rpc' = "before"
                 /\ check' = [kind |-> "queries", vendor |-> "generic",
                              expected |-> MultiQueryPerRequest * repetitions * concurrency]
                 /\ UNCHANGED call
            ELSE /\ Land(Ended(s3, MultiQueryAdvance.vpc))
                 /\ call' = MultiQueryAdvance.call
                 /\ ret' = Append(ret, Called("get_response_body", call.case, TRUE))
                 /\ response_body' = fetched.body
                 /\ UNCHANGED <<rpc, check>>
    /\ UNCHANGED <<vexec, overflow_checks, concurrency_levels, verified, inserted>>
    /\ UNCHANGED <<rendered, mainVars, cpc, harnessVars, db, incs, before_count, db_before,
                   after_count>>

\* lines 89-97: verify_queries_count has returned, verify_rows_count is called
MultiQueryRows ==
    /\ vpc = "queries"
    /\ vexec = "MultiQuery"
    /\ rpc = "returned"
    /\ check' = [kind |-> "rows", vendor |-> "generic",
                 expected |-> MultiQueryPerRequest * repetitions * concurrency]
    /\ rpc' = "before"
    /\ vpc' = "rows"
    /\ ret' = Append(ret, Called("verify_rows_count", call.case, TRUE))
    /\ UNCHANGED <<vexec, overflow_checks, concurrency_levels, response_body, verified,
                   inserted>>
    /\ UNCHANGED <<msgVars, rendered, mainVars, call, cpc, harnessVars, db, incs,
                   before_count, db_before, after_count>>

\* lines 98-103: verify_rows_count has returned; the next test case or the
\* return
MultiQueryAfterRows ==
    /\ vpc = "rows"
    /\ vexec = "MultiQuery"
    /\ rpc = "returned"
    /\ rpc' = "idle"
    /\ vpc' = MultiQueryAdvance.vpc
    /\ call' = MultiQueryAdvance.call
    /\ UNCHANGED <<vexec, overflow_checks, concurrency_levels, response_body, verified,
                   inserted>>
    /\ UNCHANGED <<msgVars, rendered, mainVars, cpc, ret, harnessVars, check, db, incs,
                   before_count, db_before, after_count>>

NextMultiQuery ==
    \/ MultiQueryHead
    \/ MultiQueryCase
    \/ HarnessNext
    \/ ReconNext
    \/ MultiQueryRows
    \/ MultiQueryAfterRows

SpecMultiQuery == InitMultiQuery /\ [][NextMultiQuery]_vars

(***************************************************************************)
(* SpecUpdates: Updates::verify_updates (test_type/query/updates.rs).  A   *)
(* world table is a function from id to randomnumber; the second snapshot  *)
(* is whatever the target has made of the table by then.                   *)
(***************************************************************************)
MaxWorlds == 3

MaxRandomNumber == 2

UpdatesMaxConcurrency == 3

UpdatesMaxRepetitions == 2

WorldTables == UNION {[1..n -> 1..MaxRandomNumber] : n \in 1..MaxWorlds}

\* f32: the nearest 24-bit significands of 0.90 and 0.95, in units of 2^-24
F32Unit == 2^24

F32_0_90 == 15099494

F32_0_95 == 15938355

RECURSIVE BitLength(_)
BitLength(n) == IF n = 0 THEN 0 ELSE 1 + BitLength(n \div 2)

\* p / 2^24 rounded to a 24-bit significand, ties to even; still in units
\* of 2^-24
RoundToF32(p) ==
    IF BitLength(p) <= 24 THEN p
    ELSE LET ulp == 2^(BitLength(p) - 24)
             low == p \div ulp
             rest == p % ulp
             up == \/ 2 * rest > ulp
                   \/ (2 * rest = ulp /\ low % 2 = 1)
         IN  (IF up THEN low + 1 ELSE low) * ulp

\* (expected as f32 * factor) as i32, for the small non-negative `expected`
\* that an f32 holds exactly
F32Threshold(expected, factor) == RoundToF32(expected * factor) \div F32Unit

\* lines 147-156
RECURSIVE UpdatesLoop(_, _, _, _)
UpdatesLoop(worlds_before, worlds_after, index, updates) ==
    IF index >= Cardinality(DOMAIN worlds_before) THEN updates
    ELSE UpdatesLoop(worlds_before, worlds_after, index + 1,
            IF /\ HashMap_get(worlds_before, index) # None
               /\ HashMap_get(worlds_after, index) # None
               /\ worlds_before[index] # worlds_after[index]
            THEN updates + 1 ELSE updates)

\* lines 158-170
UpdatesFindings(updates, expected_updates) ==
    IF updates = 0
    THEN <<  <<"error", Msg("No items were updated in the database.", <<>>, <<>>),
              "No Updates">>  >>
    ELSE IF updates <= F32Threshold(expected_updates, F32_0_90)
    THEN <<  <<"error",
              Msg("Only {} items were updated in the database out of roughly {} expected.",
                  <<updates, expected_updates>>, <<>>),
              "Too Few Updates">>  >>
    ELSE IF updates <= F32Threshold(expected_updates, F32_0_95)
    THEN <<  <<"warning",
              Msg("There may have been an error updating the database. Only {} items were updated in the database out of the roughly {} expected.",
                  <<updates, expected_updates>>, <<>>),
              "Too Few Updates">>  >>
    ELSE <<>>

InitUpdates ==
    /\ messages = Messages_new("url")
    /\ stdout = <<>>
    /\ raised = <<>>
    /\ rendered = <<>>
    /\ MainIdle
    /\ VerifyIdle
    /\ call \in [fn : {"verify_updates"}, worlds_before : WorldTables,
                 concurrency : 0..UpdatesMaxConcurrency,
                 repetitions : 0..UpdatesMaxRepetitions]
    /\ cpc = "ready"
    /\ ret = <<>>
    /\ concurrency = 0
    /\ repetitions = 0
    /\ num_cpus \in 1..MaxCpus
    /\ hpc = "idle"
    /\ rep = 0
    /\ requests_to_send = 0
    /\ transaction_successes = 0
    /\ transaction_failures = 0
    /\ wpc = [w \in 1..num_cpus |-> "unspawned"]
    /\ issued = <<>>
    /\ rpc = "idle"
    /\ check = [kind |-> "updates", vendor |-> "generic", expected |-> 0]
    /\ db = Effect(0)
    /\ incs = {Effect(1)}
    /\ before_count = 0
    /\ db_before = Effect(0)
    /\ after_count = 0

\* lines 134-143: the first snapshot, then the harness with one repetition
UpdatesBefore ==
    /\ cpc = "ready"
    /\ call.fn = "verify_updates"
    /\ concurrency' = call.concurrency
    /\ repetitions' = 1
    /\ HarnessEnter
    /\ cpc' = "harness"
    /\ UNCHANGED <<num_cpus, call, ret>>
    /\ UNCHANGED <<msgVars, reconVars, rendered, mainVars, verifyVars>>

\* lines 145-170: the second snapshot, the count and its findings
UpdatesAfter ==
    /\ cpc = "harness"
    /\ call.fn = "verify_updates"
    /\ hpc = "returned"
    /\ \E worlds_after \in WorldTables :
        LET expected_updates == call.concurrency * call.repetitions
            updates == UpdatesLoop(call.worlds_before, worlds_after, 0, 0)
        IN  /\ RaiseAll(UpdatesFindings(updates, expected_updates))
            /\ ret' = <<[worlds_after |-> worlds_after, updates |-> updates]>>
    /\ cpc' = "returned"
    /\ hpc' = "idle"
    /\ UNCHANGED <<concurrency, repetitions, num_cpus, rep, requests_to_send,
                   transaction_successes, transaction_failures, wpc, issued>>
    /\ UNCHANGED <<call, reconVars, rendered, mainVars, verifyVars>>

NextUpdates == UpdatesBefore \/ HarnessNext \/ UpdatesAfter

SpecUpdates == InitUpdates /\ [][NextUpdates]_vars

(***************************************************************************)
(* The claims.                                                             *)
(***************************************************************************)
RECURSIVE SumSeq(_)
SumSeq(s) == IF s = <<>> THEN 0 ELSE Head(s) + SumSeq(Tail(s))

\* the lines printed with this label
LinesWith(kind, short_message) ==
    {i \in 1..Len(stdout) :
        stdout[i].kind = kind /\ stdout[i].short_message = short_message}

Delta == after_count - before_count

RawDelta == db.updates - db_before.updates

TooFewErrors == LinesWith("error", ShortLabel(check.kind))

\* C1: for concurrency >= 1 and repetitions >= 1 the harness has, when it
\* returns, issued exactly `concurrency` requests in every repetition,
\* concurrency * repetitions in all, and counted as many outcomes.
C1_ExactRequestCount ==
    (hpc = "returned" /\ concurrency >= 1 /\ repetitions >= 1) =>
        /\ \A k \in 1..Len(issued) : issued[k] = concurrency
        /\ SumSeq(issued) = concurrency * repetitions
        /\ transaction_successes + transaction_failures = concurrency * repetitions

\* C3: when a reconciliation returns, its comparison has raised exactly one
\* Error ('Too Few Queries' / 'Too Few Rows') if the counter delta is below
\* the expected value, and none if the delta is at or above it.
C3_TooFewIsOneError ==
    rpc = "returned" =>
        /\ Cardinality(TooFewErrors) = (IF Delta < check.expected THEN 1 ELSE 0)
        /\ Cardinality({i \in 1..Len(messages.errors) :
                messages.errors[i].message.text = TooFewText(check.kind)})
             = (IF Delta < check.expected THEN 1 ELSE 0)

C3_Witness ==
    /\ rpc = "returned"
    /\ Delta < check.expected
    /\ Delta > 0

\* C4 as stated: a delta above the expected value raises a Warning (and no
\* Error).
C4_MoreIsWarning ==
    (rpc = "returned" /\ Delta > check.expected) =>
        /\ Len(messages.warnings) > 0
        /\ TooFewErrors = {}

\* C4 as amended: a delta above the expected value raises nothing in the
\* comparison, neither a Warning nor an Error.
C4_MoreIsSilent ==
    (rpc = "returned" /\ Delta > check.expected) =>
        /\ messages.warnings = <<>>
        /\ \A i \in 1..Len(stdout) : stdout[i].kind # "warning"
        /\ TooFewErrors = {}

C4_Witness ==
    /\ rpc = "returned"
    /\ Delta > check.expected

\* C5: with the MySQL compensation the rows-updated check passes when the
\* compensated delta equals the expected value, passes when the raw delta is
\* 0.99 * expected, and raises an Error when the raw delta is below
\* 0.985 * expected.
C5_MarginPolicy ==
    (rpc = "returned" /\ check.kind = "updates" /\ check.vendor = "mysql") =>
        /\ (Delta = check.expected => TooFewErrors = {})
        /\ (100 * RawDelta = 99 * check.expected => TooFewErrors = {})
        /\ (1000 * RawDelta < 985 * check.expected => TooFewErrors # {})

IsPrefix(a, b) ==
    /\ Len(a) <= Len(b)
    /\ \A i \in 1..Len(a) : a[i] = b[i]

\* what error / warning must capture when called on m with this message
Captured(m, message) ==
    [body |-> m.body, url |-> m.url, headers |-> m.headers, message |-> message]

C6_CountsAgree == Len(stdout) = Len(messages.errors) + Len(messages.warnings)

C6_Step ==
    /\ IsPrefix(messages.errors, messages'.errors)
    /\ IsPrefix(messages.warnings, messages'.warnings)
    /\ IsPrefix(stdout, stdout')
    /\ (stdout' # stdout \/ messages'.errors # messages.errors
                         \/ messages'.warnings # messages.warnings) =>
          /\ Len(stdout') = Len(stdout) + 1
          /\ LET line == stdout'[Len(stdout')]
             IN  IF line.kind = "error"
                 THEN /\ messages'.errors =
                            Append(messages.errors, Captured(messages, line.message))
                      /\ messages'.warnings = messages.warnings
                 ELSE /\ line.kind = "warning"
                      /\ messages'.warnings =
                            Append(messages.warnings, Captured(messages, line.message))
                      /\ messages'.errors = messages.errors
          /\ messages'.url = messages.url
          /\ messages'.body = messages.body
          /\ messages'.headers = messages.headers
          /\ rendered' = rendered

\* C6: every call of error or warning appends exactly one record to its own
\* list, holding the url, headers and body current at the call, and prints
\* exactly one line, changing nothing else; the lines printed always number
\* |errors| + |warnings|, and no later step alters a record already captured.
C6_RaiseAppendsAndEmits == []C6_CountsAgree /\ [][C6_Step]_vars

C6_Witness ==
    /\ Len(messages.warnings) > 0
    /\ \E i \in 1..Len(messages.errors) :
          /\ messages.errors[i].body # messages.body
          /\ messages.errors[i].headers # messages.headers

\* the summary tags and the record messages of one rendering, in print order
RECURSIVE LinesOf(_, _)
LinesOf(r, what) ==
    IF r = <<>> THEN <<>>
    ELSE (IF Head(r).line = what THEN <<Head(r).text>> ELSE <<>>)
         \o LinesOf(Tail(r), what)

Summaries(r) == [i \in 1..Len(LinesOf(r, "summary")) |-> LinesOf(r, "summary")[i].text]

RecordMessages(r) == LinesOf(r, "message")

LastRendering == rendered'[Len(rendered')]

\* C7 as stated: a rendering prints exactly one summary line, PASS when
\* there are no records, WARN when there are warnings, ERROR when there are
\* errors.
C7_SingleSummaryLine ==
    [][rendered' # rendered =>
        /\ Len(Summaries(LastRendering)) = 1
        /\ (messages.errors = <<>> /\ messages.warnings = <<>>
                => Summaries(LastRendering) = <<"PASS">>)
        /\ (messages.warnings # <<>>
                => \E i \in 1..Len(Summaries(LastRendering)) :
                      Summaries(LastRendering)[i] = "WARN")
        /\ (messages.errors # <<>>
                => \E i \in 1..Len(Summaries(LastRendering)) :
                      Summaries(LastRendering)[i] = "ERROR")]_vars

\* C7 as amended: a rendering prints PASS alone when there are no records,
\* otherwise a WARN line if there are warnings followed by an ERROR line if
\* there are errors: one summary line, or two when both kinds are present.
C7_SummaryPerSection ==
    [][rendered' # rendered =>
        Summaries(LastRendering) =
            IF messages.errors = <<>> /\ messages.warnings = <<>>
            THEN <<"PASS">>
            ELSE (IF messages.warnings # <<>> THEN <<"WARN">> ELSE <<>>)
                 \o (IF messages.errors # <<>> THEN <<"ERROR">> ELSE <<>>)]_vars

C7_Witness ==
    \E k \in 1..Len(rendered) : Summaries(rendered[k]) = <<"WARN", "ERROR">>

RECURSIVE RaisedOf(_, _)
RaisedOf(rs, kind) ==
    IF rs = <<>> THEN <<>>
    ELSE (IF Head(rs).kind = kind THEN <<Head(rs).message>> ELSE <<>>)
         \o RaisedOf(Tail(rs), kind)

\* C8 as stated: a rendering prints the records in the order raised.
C8_PrintedInRaiseOrder ==
    [][rendered' # rendered =>
        RecordMessages(LastRendering) =
            [i \in 1..Len(raised) |-> raised[i].message]]_vars

\* C8 as amended: a rendering prints the warnings in the order raised and
\* then the errors in the order raised, so a warning is printed before
\* every error, also before one raised earlier.
C8_PrintedWarningsThenErrors ==
    [][rendered' # rendered =>
        RecordMessages(LastRendering) =
            RaisedOf(raised, "warning") \o RaisedOf(raised, "error")]_vars

C8_Witness ==
    /\ Len(raised) = 2
    /\ raised[1].kind = "error"
    /\ raised[2].kind = "warning"
    /\ raised[1].message # raised[2].message
    /\ \E k \in 1..Len(rendered) :
          RecordMessages(rendered[k]) = <<raised[2].message, raised[1].message>>

DatabaseResolves(database) ==
    database # None /\ Database_from_str(to_lowercase(database[1])) # None

PastGetExecutor == mpc \in {"built", "verified", "exit"}

(* C9: once get_executor has run on an Unknown test type, with no database *)
(* name given or with one that names a vendor, main holds a verifier: the  *)
(* call has neither returned an error nor aborted the process.             *)
C9_UnknownAlwaysBuilds ==
    (PastGetExecutor /\ test_type.tag = "Unknown"
        /\ (env.database = None \/ DatabaseResolves(env.database)))
    => (executor.tag = "Unknown" /\ outcome.result \in {"running", "ok"})

DatabaseTypes == {"SingleQuery", "MultiQuery", "CachedQuery", "Fortune", "Update"}

(* C10: once get_executor has run on a test type that needs a database,    *)
(* with no database name given or with one that names no vendor, the       *)
(* process has ended with the typed error InvalidDatabaseType: no verifier *)
(* was built, nothing was verified and the process did not abort.          *)
C10_NoDatabaseIsTypedError ==
    (PastGetExecutor /\ test_type.tag \in DatabaseTypes
        /\ ~DatabaseResolves(env.database))
    => (/\ outcome.result = "err"
        /\ outcome.error.kind = "InvalidDatabaseType"
        /\ executor = NoExecutor
        /\ raised = <<>>
        /\ rendered = <<>>)

(* C2: no run of verify aborts the process: whatever headers and body the  *)
(* target returns (an empty body, a plaintext body shorter than 13 bytes,  *)
(* a fortune response shorter than 500 bytes), verify never stops in a     *)
(* panic, in a build with overflow checks and in one without.              *)
C2_VerifyNeverAborts == vpc # "panicked"

\* the tags the resolution knows, as the claim lists them
KnownTags ==
    {<<<<"j", "s", "o", "n">>, "Json">>, <<<<"d", "b">>, "SingleQuery">>, <<<<"q", "u", "e", "r", "y">>, "MultiQuery">>,
     <<<<"c", "a", "c", "h", "e", "d", "_", "q", "u", "e", "r", "y">>, "CachedQuery">>, <<<<"f", "o", "r", "t", "u", "n", "e">>, "Fortune">>,
     <<<<"u", "p", "d", "a", "t", "e">>, "Update">>, <<<<"p", "l", "a", "i", "n", "t", "e", "x", "t">>, "Plaintext">>}

(* C11: once main has resolved the test type, it holds the known variant   *)
(* when the name equals one of the known tags letter case aside, and       *)
(* otherwise Unknown carrying the name exactly as it was given.            *)
C11_GetResolvesOrKeepsName ==
    (mpc # "start") =>
        IF \E t \in KnownTags : t[1] = to_lowercase(env.test_type_name)
        THEN \E t \in KnownTags :
                /\ t[1] = to_lowercase(env.test_type_name)
                /\ test_type.tag = t[2]
        ELSE test_type = [tag |-> "Unknown", name |-> env.test_type_name]

\* the Missing header Error of each required group
MissingText ==
    [server |-> "Required response header missing: Server",
     date |-> "Required response header missing: Date",
     content_type |-> "Required response header missing: Content-Type",
     size |-> "Required response size header missing, please include either \"Content-Length\" or \"Transfer-Encoding\""]

Groups == DOMAIN MissingText

\* the spellings of each group in the capitalised and in the lower-case form
UsualSpellings ==
    [server |-> {"Server", "server"},
     date |-> {"Date", "date"},
     content_type |-> {"Content-Type", "content-type"},
     size |-> {"Content-Length", "content-length", "Transfer-Encoding", "transfer-encoding"}]

\* every spelling of each group among the sample keys, letter case aside
AnySpellings ==
    [server |-> ServerSpellings, date |-> DateSpellings,
     content_type |-> ContentTypeSpellings, size |-> SizeSpellings]

MissingErrors(g) ==
    Cardinality({i \in 1..Len(stdout) :
                    /\ stdout[i].kind = "error"
                    /\ stdout[i].short_message = "Missing header"
                    /\ stdout[i].message.text = MissingText[g]})

HeadersReturned == cpc = "returned" /\ call.fn = "verify_headers_internal"

UsuallySpelled(headers) ==
    DOMAIN headers \subseteq UNION {UsualSpellings[g] : g \in Groups}

(* C12: with should_retest = false, on a header map whose keys are spelled *)
(* in the capitalised or the lower-case form, the validator raises exactly *)
(* one Missing header Error for each of the four groups that is absent and *)
(* none for a group that is present, and no other Missing header Error; on *)
(* the empty map that is four Errors in all and no Warning.                *)
C12_OneMissingErrorPerAbsentGroup ==
    (HeadersReturned /\ ~call.should_retest /\ UsuallySpelled(call.headers)) =>
        /\ \A g \in Groups :
            MissingErrors(g) = IF DOMAIN call.headers \cap UsualSpellings[g] = {}
                               THEN 1 ELSE 0
        /\ Cardinality(LinesWith("error", "Missing header"))
             = Cardinality({g \in Groups : DOMAIN call.headers \cap UsualSpellings[g] = {}})
        /\ (call.headers = NoHeaders =>
                Len(messages.errors) = 4 /\ Len(messages.warnings) = 0)

C12_Witness ==
    /\ HeadersReturned
    /\ ~call.should_retest
    /\ DOMAIN call.headers = {"Server", "content-length"}
    /\ MissingErrors("date") = 1
    /\ MissingErrors("content_type") = 1
    /\ Len(messages.errors) = 2

(* C13: a header present under any letter-casing of its name counts as     *)
(* present: the validator raises no Missing header Error for its group,    *)
(* and a Date value that does not parse or a Content-Type value that does  *)
(* not match is reported whatever the casing of the key.                   *)
C13_KeysMatchCaseInsensitively ==
    HeadersReturned =>
        /\ \A g \in Groups :
            (DOMAIN call.headers \cap AnySpellings[g] # {}) => MissingErrors(g) = 0
        /\ (\E k \in DOMAIN call.headers \cap DateSpellings :
                call.headers[k] = "2026-11-05 12:00:00")
            => Cardinality(LinesWith("warning", "Invalid Date")) = 1
        /\ (\E k \in DOMAIN call.headers \cap ContentTypeSpellings :
                call.headers[k] = "image/png")
            => Cardinality(LinesWith("error", "Invalid Content-Type")) = 1

\* the sample strings that are numerals of a 32-bit integer, with their values
Numerals ==
    {<<<<"2">>, 2>>,
     <<<<"0">>, 0>>,
     <<<<"5", "0", "1">>, 501>>,
     <<<<"-", "3">>, -3>>,
     <<<<"+", "7">>, 7>>,
     <<<<"5", "0", "0">>, 500>>,
     <<<<"1">>, 1>>,
     <<<<"4", "9", "9">>, 499>>,
     <<<<"0", "0", "0", "1", "2">>, 12>>,
     <<<<"-", "0">>, 0>>,
     <<<<"1", "0", "0", "0">>, 1000>>,
     <<<<"2", "1", "4", "7", "4", "8", "3", "6", "4", "7">>, 2147483647>>,
     <<<<"-", "2", "1", "4", "7", "4", "8", "3", "6", "4", "8">>, -2147483647 - 1>>}

NumeralValue(str) == (CHOOSE n \in Numerals : n[1] = str)[2]

IsNumeral(str) == \E n \in Numerals : n[1] = str

TranslateReturned == cpc = "returned" /\ call.fn = "translate_query_count"

ObjectReturned == cpc = "returned" /\ call.fn = "verify_random_number_object"

\* the object of the call has exactly the keys id and randomnumber (in some
\* spelling), with the values of these types
HasBoth(id_t, rn_t) ==
    /\ Len(call.json) = 2
    /\ call.json[1][1] = IdKey
    /\ call.json[1][2].t = id_t
    /\ to_lowercase(call.json[2][1]) = RandomNumberKey
    /\ call.json[2][2].t = rn_t

IdOf == call.json[1][2].n

RandomNumberOf == call.json[2][2].n

WarningsRaised == {i \in 1..Len(stdout) : stdout[i].kind = "warning"}

ErrorsRaised == {i \in 1..Len(stdout) : stdout[i].kind = "error"}

(* C16: for an object with integer id and integer randomnumber, a 'Value   *)
(* Out of Range' warning is raised whenever id is outside [1, 10000], an   *)
(* error whenever randomnumber <= 0, a warning whenever randomnumber >     *)
(* 10000, and nothing when both are within [1, 10000].                     *)
C16_RangeFindings ==
    (ObjectReturned /\ HasBoth("int", "int")) =>
        /\ (IdOf < 1 \/ IdOf > 10000) =>
              \E i \in LinesWith("warning", "Value Out of Range") :
                  stdout[i].message.nums = <<IdOf>>
        /\ RandomNumberOf <= 0 => ErrorsRaised # {}
        /\ RandomNumberOf > 10000 =>
              \E i \in LinesWith("warning", "Value Out of Range") :
                  stdout[i].message.nums = <<>>
        /\ (IdOf >= 1 /\ IdOf <= 10000 /\ RandomNumberOf >= 1 /\ RandomNumberOf <= 10000)
              => stdout = <<>>

\* the numeral a string value holds, when it holds one
NumeralOf(value) == i64_from_str(value.s)

(* C17: when id, or randomnumber, is a numeric string, an 'Extra Bytes'    *)
(* warning is raised for that key and no error, and the checks go on with  *)
(* the parsed value.                                                       *)
C17_NumericStringsAccepted ==
    /\ (ObjectReturned /\ HasBoth("str", "int") /\ NumeralOf(call.json[1][2]) # None
           /\ RandomNumberOf >= 1) =>
          /\ Cardinality(LinesWith("warning", "Extra Bytes")) = 1
          /\ ErrorsRaised = {}
          /\ (NumeralOf(call.json[1][2])[1] > 10000) =>
                 LinesWith("warning", "Value Out of Range") # {}
    /\ (ObjectReturned /\ HasBoth("int", "str") /\ NumeralOf(call.json[2][2]) # None) =>
          /\ Cardinality(LinesWith("warning", "Extra Bytes")) = 1
          /\ ErrorsRaised = {}

LengthReturned == cpc = "returned" /\ call.fn = "verify_with_length"

ObjectNotArrayText == "Top-level JSON is an object, not an array"

(* C15: on a body that is a JSON array, verify_with_length raises exactly  *)
(* one 'Incorrect Length' error when the array's length differs from the   *)
(* expected count and none when it matches, whatever the checks of the     *)
(* objects raised; on a body that is a single JSON object it raises the    *)
(* warning 'Top-level JSON is an object, not an array', no error of that   *)
(* text, and no 'Incorrect Length' error.                                  *)
C15_LengthCheckIndependent ==
    (LengthReturned /\ ~call.truncated) =>
        /\ call.doc.t = "arr" =>
              Cardinality(LinesWith("error", "Incorrect Length"))
                  = (IF Len(call.doc.l) # call.expected_count THEN 1 ELSE 0)
        /\ call.doc.t = "obj" =>
              /\ Cardinality({i \in WarningsRaised :
                                 stdout[i].message.text = ObjectNotArrayText}) = 1
              /\ \A i \in ErrorsRaised : stdout[i].message.text # ObjectNotArrayText
              /\ LinesWith("error", "Incorrect Length") = {}

C15_Witness ==
    /\ LengthReturned
    /\ ~call.truncated
    /\ call.doc.t = "arr"
    /\ Len(call.doc.l) = 2
    /\ call.expected_count = 1
    /\ LinesWith("error", "Missing Key") # {}
    /\ Cardinality(LinesWith("error", "Incorrect Length")) = 1

JsonReturned == cpc = "returned" /\ call.fn = "verify_json"

ErrorsWithText(text) == {i \in ErrorsRaised : stdout[i].message.text = text}

ExpectedMessageText == "Expected message of 'hello, world!', got '{}'"

\* the value under the key message (in any spelling of its letters) of the
\* document of the call: <<value>>, or <<>> when there is no such key
MessageOf ==
    IF call.doc.t = "obj"
          /\ \E i \in 1..Len(call.doc.m) : to_lowercase(call.doc.m[i][1]) = MessageKey
    THEN <<call.doc.m[CHOOSE i \in 1..Len(call.doc.m) :
                          to_lowercase(call.doc.m[i][1]) = MessageKey][2]>>
    ELSE <<>>

MessageIsHello ==
    /\ MessageOf # <<>>
    /\ MessageOf[1].t = "str"
    /\ to_lowercase(MessageOf[1].s) = HelloWorld

(* C18 as stated: verify_json raises exactly one error in each failing     *)
(* case and none otherwise: 'Invalid JSON' when the body does not parse,   *)
(* "Missing required key 'message'" when the value has no message key,     *)
(* "Expected message of 'hello, world!'" when message is no string or      *)
(* differs from 'hello, world!' whatever the case of its letters, and no   *)
(* error when it equals it.                                                *)
C18_OneErrorPerCase_Original ==
    JsonReturned =>
        /\ call.truncated =>
              /\ Cardinality(ErrorsRaised) = 1
              /\ Cardinality(LinesWith("error", "Invalid JSON")) = 1
        /\ (~call.truncated /\ MessageOf = <<>>) =>
              /\ Cardinality(ErrorsRaised) = 1
              /\ Cardinality(ErrorsWithText("Missing required key 'message'")) = 1
        /\ (~call.truncated /\ MessageOf # <<>> /\ ~MessageIsHello) =>
              /\ Cardinality(ErrorsRaised) = 1
              /\ Cardinality(ErrorsWithText(ExpectedMessageText)) = 1
        /\ (~call.truncated /\ MessageIsHello) => ErrorsRaised = {}

(* C18: verify_json raises exactly one error in each failing case and none *)
(* otherwise: 'Invalid JSON' when the body does not parse, "Missing        *)
(* required key 'message'" when the value has no message key or its        *)
(* message is null, "Expected message of 'hello, world!'" when message is  *)
(* neither null nor a string or is a string that differs from 'hello,      *)
(* world!' whatever the case of its letters, and no error when it equals   *)
(* it.                                                                     *)
C18_OneErrorPerCase ==
    JsonReturned =>
        /\ call.truncated =>
              /\ Cardinality(ErrorsRaised) = 1
              /\ Cardinality(LinesWith("error", "Invalid JSON")) = 1
        /\ (~call.truncated /\ (MessageOf = <<>> \/ MessageOf = <<JNull>>)) =>
              /\ Cardinality(ErrorsRaised) = 1
              /\ Cardinality(ErrorsWithText("Missing required key 'message'")) = 1
        /\ (~call.truncated /\ MessageOf # <<>> /\ MessageOf # <<JNull>> /\ ~MessageIsHello) =>
              /\ Cardinality(ErrorsRaised) = 1
              /\ Cardinality(ErrorsWithText(ExpectedMessageText)) = 1
        /\ (~call.truncated /\ MessageIsHello) => ErrorsRaised = {}

C18_Witness ==
    /\ JsonReturned
    /\ ~call.truncated
    /\ MessageOf = <<JObj(<<>>)>>
    /\ Len(call.doc.m) = 2
    /\ Cardinality(ErrorsWithText(ExpectedMessageText)) = 1
    /\ WarningsRaised # {}

PlaintextEnded == cpc \in {"returned", "panicked"} /\ call.fn = "verify_plaintext"

HasHello == contains(to_lowercase(call.response_body), HelloWorld)

ExtraBytesWarnings == LinesWith("warning", "Additional response byte(s)")

(* C19: verify_plaintext always returns; it raises an error exactly when   *)
(* the lower-cased body does not contain 'hello, world!', and the          *)
(* extra-bytes warning exactly when the body is longer than 13 bytes,      *)
(* reporting body length - 13; a body shorter than 13 bytes yields the     *)
(* error and no warning.                                                   *)
C19_ExcessNeverUnderflows ==
    PlaintextEnded =>
        LET len == Len(call.response_body)
        IN  /\ cpc = "returned"
            /\ (ErrorsRaised # {}) <=> ~HasHello
            /\ (ExtraBytesWarnings # {}) <=> len > Len(HelloWorld)
            /\ \A i \in ExtraBytesWarnings :
                  stdout[i].message.nums
                      = <<[panic |-> FALSE, base |-> "0", offset |-> len - Len(HelloWorld)]>>
            /\ len < Len(HelloWorld) => (ErrorsRaised # {} /\ WarningsRaised = {})

\* the workers that are neither finished nor yet to be spawned
Running == {w \in Workers : wpc[w] \notin {"done", "unspawned"}}

(* C20: issue_multi_query_requests returns only after every worker of      *)
(* every repetition has stopped: no worker runs once it has returned or    *)
(* while it is between two repetitions, the workers of a repetition are    *)
(* spawned only when no worker of the one before still runs, and the       *)
(* counters are read only after the last repetition, with no worker        *)
(* running.                                                                *)
C20_ReturnsAfterDrain ==
    /\ [](Running # {} => hpc = "join")
    /\ [][(\E w \in Workers : wpc[w] \in {"done", "unspawned"} /\ wpc'[w] = "load")
             => (Running = {} /\ rep < repetitions)]_vars
    /\ [][(hpc # "returned" /\ hpc' = "returned")
             => (Running = {} /\ rep = repetitions /\ Len(issued) = repetitions)]_vars

C20_Witness ==
    /\ hpc = "returned"
    /\ repetitions = 2
    /\ num_cpus = 2
    /\ Len(issued) = 2
    /\ issued[1] > 1
    /\ issued[2] > 1
    /\ Running = {}

(* C21: with every thread scheduled again and again and every request      *)
(* returning, issue_multi_query_requests returns; in each repetition the   *)
(* counter of remaining requests comes to be <= 0 with every worker        *)
(* stopped.                                                                *)
C21_HarnessTerminates ==
    /\ <>(hpc = "returned")
    /\ (hpc = "join") ~> (requests_to_send <= 0 /\ Running = {})

C21_Witness ==
    /\ hpc = "returned"
    /\ concurrency = MaxConcurrency
    /\ repetitions = MaxRepetitions
    /\ num_cpus = MaxCpus
    /\ rep = repetitions
    /\ requests_to_send <= 0

(* C22: in each reconciliation the counter is read the first time before   *)
(* any request of the harness is issued and the second time only after the *)
(* harness has returned with no worker running, so every request and every *)
(* change of the backend lies between the two reads; the delta that is     *)
(* compared and reported is the second reading minus the first.            *)
C22_ReadsBracketRequests ==
    /\ [](rpc = "before" => (SumSeq(issued) = 0 /\ Running = {}))
    /\ [][(db' # db \/ SumSeq(issued') # SumSeq(issued))
             => (rpc = "harness" /\ rpc' = "harness")]_vars
    /\ [][(rpc # "returned" /\ rpc' = "returned")
             => (/\ hpc = "returned"
                 /\ Running = {}
                 /\ after_count' = GetCount(check.kind, check.vendor, db))]_vars
    /\ [](rpc = "returned" =>
             /\ before_count = GetCount(check.kind, check.vendor, db_before)
             /\ after_count = GetCount(check.kind, check.vendor, db)
             /\ \A i \in TooFewErrors :
                   stdout[i].message.nums = <<after_count - before_count, check.expected>>)

C22_Witness ==
    /\ rpc = "returned"
    /\ check.kind = "updates"
    /\ SumSeq(issued) >= 2
    /\ after_count - before_count = 1
    /\ TooFewErrors # {}

RetestReturned == cpc = "returned" /\ call.fn = "verify_headers_retest"

\* the Date header of a map under any spelling of its key: <<value>> or <<>>
DateHeaderOf(headers) ==
    IF \E k \in DateSpellings : k \in DOMAIN headers
    THEN <<headers[CHOOSE k \in DateSpellings : k \in DOMAIN headers]>>
    ELSE <<>>

CachedDateErrors == LinesWith("error", "Cached Date")

(* C23: without should_retest the header validator makes no second request *)
(* and raises no 'Cached Date'; with should_retest and a Date header in    *)
(* the first response it makes exactly one second request and raises the   *)
(* 'Cached Date' error exactly when the second response carries a Date     *)
(* header, under any spelling of the key, whose value is identical to the  *)
(* first.                                                                  *)
C23_CachedDateProbe ==
    RetestReturned =>
        /\ ~call.should_retest => (ret = <<>> /\ CachedDateErrors = {})
        /\ (call.should_retest /\ DateHeaderOf(call.headers) # <<>>) =>
              /\ Len(ret) = 1
              /\ (CachedDateErrors # {}) <=>
                    (/\ call.second.ok
                     /\ DateHeaderOf(call.second.headers) = DateHeaderOf(call.headers))

\* the findings of the first object of the list that raises any
RECURSIVE FirstObjectFindings(_)
FirstObjectFindings(list) ==
    IF list = <<>> THEN <<>>
    ELSE IF as_object(Head(list)) = None THEN FirstObjectFindings(Tail(list))
    ELSE LET fs == verify_random_number_object(as_object(LoweredValue(Head(list)))[1])
         IN  IF fs # <<>> THEN fs ELSE FirstObjectFindings(Tail(list))

\* the lines a sequence of lines holds besides those with these labels
RECURSIVE LinesBesides(_, _)
LinesBesides(lines, labels) ==
    IF lines = <<>> THEN <<>>
    ELSE (IF Head(lines).short_message \in labels THEN <<>> ELSE <<Head(lines)>>)
         \o LinesBesides(Tail(lines), labels)

(* C24: on an array, verify_with_length checks the objects in order up to  *)
(* and including the first object that itself raises a finding: what the   *)
(* object checks raise is exactly the findings of that object (nothing     *)
(* when every object passes), also when messages already held findings     *)
(* before the call.                                                        *)
C24_WalkStopsAtFirstFailingObject ==
    (LengthReturned /\ ~call.truncated /\ call.doc.t = "arr") =>
        LinesBesides(stdout, {"Missing header", "Incorrect Length"})
            = FindingLines(FirstObjectFindings(call.doc.l))

(* C26: in Fortune::verify the fixture rows are inserted at most once, only *)
(* when the equivalence check passed, and only after the query-count and   *)
(* the row-count reconciliation have both finished, so that no counter is  *)
(* read and no request of the harness is issued after the insert; without  *)
(* a passed equivalence check nothing is inserted; when verify returns,    *)
(* the body held by messages is the original response body again.          *)
C26_InsertOnceAfterReconciliation ==
    /\ [](inserted <= 1)
    /\ [][inserted' # inserted =>
             /\ verified
             /\ vpc = "rows"
             /\ check.kind = "rows"
             /\ rpc = "returned"
             /\ Running = {}]_vars
    /\ [](inserted > 0 => (rpc = "idle" /\ Running = {} /\ hpc = "idle"))
    /\ []((vexec = "Fortune" /\ vpc = "returned") =>
             /\ messages.body = response_body
             /\ inserted = (IF verified THEN 1 ELSE 0))

C26_Witness ==
    /\ vexec = "Fortune"
    /\ vpc = "returned"
    /\ verified
    /\ inserted = 1
    /\ response_body # <<>>
    /\ messages.body = response_body
    /\ SumSeq(issued) > 0

CallsOf(ev) == {i \in DOMAIN ret : ret[i].ev = ev}

MaximumCases ==
    {c \in DOMAIN MultiQueryTestCases :
        translate_query_count(MultiQueryTestCases[c], MultiQueryMin, MultiQueryMax) = MultiQueryMax}

HeaderFetchFailed == ret # <<>> /\ ret[1] = Called("get_response_headers", 0, FALSE)

HeaderFetchSucceeded == ret # <<>> /\ ret[1] = Called("get_response_headers", 0, TRUE)

(* C25: in MultiQuery.verify a failed header fetch is followed by nothing  *)
(* (no header validation, no body request, no harness request, no counter  *)
(* read) and verify returns Ok with the one 'Header(s) Error'; after a     *)
(* successful fetch the reconciliation (verify_queries_count, then         *)
(* verify_rows_count) runs exactly once, for the test case whose clamped   *)
(* count is 500, and only if the body of that test case was fetched.       *)
C25_ReconciliationOncePerVerify ==
    (vexec = "MultiQuery") =>
        /\ HeaderFetchFailed =>
            /\ vpc = "returned"
            /\ Len(ret) = 1
            /\ hpc = "idle" /\ rpc = "idle"
            /\ issued = <<>>
            /\ db = Effect(0) /\ before_count = 0 /\ after_count = 0
            /\ Len(stdout) = 1
            /\ LinesWith("error", "Header(s) Error") = {1}
            /\ Len(messages.errors) = 1 /\ messages.warnings = <<>>
        /\ HeaderFetchSucceeded =>
            /\ Cardinality(MaximumCases) = 1
            /\ \A i \in CallsOf("verify_queries_count") :
                /\ ret[i].case \in MaximumCases
                /\ i > 1 /\ ret[i - 1] = Called("get_response_body", ret[i].case, TRUE)
            /\ \A i \in CallsOf("verify_rows_count") :
                i > 1 /\ ret[i - 1] = Called("verify_queries_count", ret[i].case, TRUE)
            /\ vpc = "returned" =>
                /\ CallsOf("get_response_body") # {}
                /\ \A c \in MaximumCases :
                    IF \E i \in DOMAIN ret : ret[i] = Called("get_response_body", c, TRUE)
                    THEN /\ Cardinality(CallsOf("verify_queries_count")) = 1
                         /\ Cardinality(CallsOf("verify_rows_count")) = 1
                         /\ Len(issued) = repetitions
                    ELSE /\ CallsOf("verify_queries_count") = {}
                         /\ CallsOf("verify_rows_count") = {}
                         /\ issued = <<>>

C25_Witness ==
    /\ vexec = "MultiQuery"
    /\ vpc = "returned"
    /\ HeaderFetchSucceeded
    /\ CallsOf("verify_rows_count") # {}
    /\ \E i \in DOMAIN ret : ret[i] = Called("get_response_body", 1, TRUE)
    /\ \E i \in DOMAIN ret : ret[i] = Called("get_response_body", 5, FALSE)

\* the jobs between request() and the update of an outcome counter, and
\* between request() and the decrement of the remaining counter
Uncounted == {w \in Workers : wpc[w] \in {"fetch_add_ok", "fetch_add_err"}}

Undecremented == Uncounted \cup {w \in Workers : wpc[w] = "fetch_sub"}

OutcomesMatchRequests ==
    /\ transaction_successes + transaction_failures + Cardinality(Uncounted) = SumSeq(issued)
    /\ hpc = "join" =>
        requests_to_send + issued[Len(issued)] - Cardinality(Undecremented) = concurrency - 1
    /\ hpc \in {"loop", "returned"} =>
        /\ Uncounted = {}
        /\ transaction_successes + transaction_failures = SumSeq(issued)
        /\ SumSeq(issued) = db.queries

OneOutcomePerRequest ==
    (hpc = "join" /\ hpc' = "join") =>
        /\ \A w \in Workers :
            /\ (wpc[w] = "fetch_add_ok" /\ wpc'[w] # wpc[w]) =>
                /\ transaction_successes' = transaction_successes + 1
                /\ transaction_failures' = transaction_failures
                /\ wpc'[w] = "fetch_sub"
            /\ (wpc[w] = "fetch_add_err" /\ wpc'[w] # wpc[w]) =>
                /\ transaction_failures' = transaction_failures + 1
                /\ transaction_successes' = transaction_successes
                /\ wpc'[w] = "fetch_sub"
            /\ (wpc[w] = "fetch_sub" /\ wpc'[w] # wpc[w]) =>
                /\ requests_to_send' = requests_to_send - 1
                /\ wpc'[w] = "load"
            /\ (wpc[w] = "request" /\ wpc'[w] # wpc[w]) =>
                /\ wpc'[w] \in {"fetch_add_ok", "fetch_add_err"}
                /\ issued'[Len(issued)] = issued[Len(issued)] + 1
        /\ (transaction_successes' # transaction_successes
            \/ transaction_failures' # transaction_failures) =>
                \E w \in Uncounted : wpc'[w] = "fetch_sub"
        /\ requests_to_send' # requests_to_send =>
                \E w \in Workers : wpc[w] = "fetch_sub" /\ wpc'[w] = "load"

(* C27: every request issued by issue_multi_query_requests adds one to     *)
(* exactly one outcome counter (successes after a 200, failures otherwise) *)
(* and takes one from the remaining counter, in every interleaving; once   *)
(* the jobs are drained successes + failures is the number of requests     *)
(* issued.                                                                 *)
C27_EveryRequestCountedOnce == []OutcomesMatchRequests /\ [][OneOutcomePerRequest]_vars

C27_Witness ==
    /\ hpc = "returned"
    /\ transaction_successes >= 1
    /\ transaction_failures >= 1
    /\ SumSeq(issued) > repetitions * (concurrency - 1)
    /\ transaction_successes + transaction_failures = SumSeq(issued)

\* the repetitions whose pool has been joined
Joined == 1..(IF hpc = "join" THEN Len(issued) - 1 ELSE Len(issued))

ConformingTarget(q) ==
    /\ rpc = "returned"
    /\ check.kind = "queries"
    /\ transaction_failures = 0
    /\ \A e \in incs : e.queries <= q
    /\ db.queries - db_before.queries = SumSeq(issued) * q
    /\ check.expected = concurrency * repetitions * q

(* C29: for a target that answers every request with 200 and runs exactly  *)
(* q counted queries per request, verify_queries_count called with         *)
(* expected_queries = concurrency * repetitions * q raises no error in any *)
(* interleaving: no 'Failed Response', no 'Unexpected Responses', no 'Too  *)
(* Few Queries'.                                                           *)
C29_ConformingTargetPasses ==
    \A q \in 1..MaxInc :
        ConformingTarget(q) =>
            /\ LinesWith("error", "Failed Response") = {}
            /\ LinesWith("error", "Unexpected Responses") = {}
            /\ LinesWith("error", "Too Few Queries") = {}

UpdatesReturned == call.fn = "verify_updates" /\ cpc = "returned"

\* the ids present in both snapshots whose random number differs
ChangedIds(worlds_before, worlds_after) ==
    {id \in DOMAIN worlds_before \cap DOMAIN worlds_after :
        worlds_before[id] # worlds_after[id]}

(* C30: in verify_updates, for a world table with ids 1..N, the computed   *)
(* update count is the number of ids present in both snapshots whose       *)
(* random number differs (id N included); 'No Updates' is raised iff the   *)
(* count is 0, 'Too Few Updates' as error iff 0 < count <= floor(0.90 *    *)
(* concurrency * repetitions), and as warning iff floor(0.90 * expected) < *)
(* count <= floor(0.95 * expected).                                        *)
C30_UpdatesCountedOverAllIds ==
    UpdatesReturned =>
        LET count == Cardinality(ChangedIds(call.worlds_before, ret[1].worlds_after))
            expected == call.concurrency * call.repetitions
        IN  /\ ret[1].updates = count
            /\ LinesWith("error", "No Updates") # {} <=> count = 0
            /\ LinesWith("error", "Too Few Updates") # {}
                <=> (0 < count /\ count <= (90 * expected) \div 100)
            /\ LinesWith("warning", "Too Few Updates") # {}
                <=> ((90 * expected) \div 100 < count /\ count <= (95 * expected) \div 100)

====
